---- MODULE Spec2Model ----
(***************************************************************************)
(* Model of corrin/akahu_to_actualbudget: the account mapper               *)
(* (akahu_budget_mapping.py, akahu_actual_mapping.py) and the Flask        *)
(* importer (akahu_to_budget.py): webhook ingress, full sync and the       *)
(* reconciliation primitive.                                               *)
(*                                                                         *)
(* Python values are rendered as follows.  A dict is a TLA+ function whose *)
(* DOMAIN is its key set, so key presence ("k in d") and d.get(k) are      *)
(* distinguishable from a key holding None.  A str that the code parses    *)
(* (user input, advisor answer) is a sequence of one-character strings.    *)
(* An Optional[int] is <<>> (None) or <<n>>.                               *)
(***************************************************************************)
EXTENDS Integers, Sequences, FiniteSets, TLC

VARIABLES
    files,           \* the durable JSON files, by file name
    now,             \* the wall clock (datetime.now / utcnow)
    mp,              \* a mapper process (main() of one of the two mapper scripts)
    scores,          \* fuzzywuzzy's score of (query, choice), by name
    sg,              \* the suggestion functions applied to drawn arguments
    g_mapping_list,  \* akahu_to_budget.py's module-level mapping
    g_accounts,      \* akahu_to_budget.py's module-level account lists
    ledger,          \* the Actual Budget ledger (rows in insertion order)
    wh,              \* the thread serving POST /receive-transaction
    sy,              \* the thread serving GET /sync
    im,              \* direct invocations of load_transactions_into_actual
    world,           \* the accounts the three APIs list at present
    cb,              \* combine_accounts applied to drawn arguments
    sav,             \* a save of a store file, system call by system call
    pr,              \* a process start: the load of the store file and what follows
    ft,              \* a paginated fetch of an account's transactions
    yn,              \* the transactions posted to YNAB
    tk               \* balance reconciliation of a tracking account

vars == <<files, now, mp, scores, sg, g_mapping_list, g_accounts, ledger, wh, sy, im, world, cb, sav, pr, ft, yn, tk>>

----------------------------------------------------------------------------
(* Bounds of the model                                                     *)

MaxInputLen == 2      \* characters in a typed answer / advisor answer
MaxClock == 2         \* mapper runs in one behaviour (the clock ticks once per run)
MaxDeliveries == 3    \* importer invocations in one behaviour
MaxRequests == 2      \* HTTP requests served per endpoint in one behaviour
MaxPages == 3         \* pages the provider serves for one fetch

----------------------------------------------------------------------------
(* Python helpers                                                          *)

None == "None"

Get(d, k) == IF k \in DOMAIN d THEN d[k] ELSE None

Put(d, k, v) == [x \in DOMAIN d \cup {k} |-> IF x = k THEN v ELSE d[x]]

EmptyDict == [x \in {} |-> None]

Min(S) == CHOOSE x \in S : \A y \in S : x <= y

NoneInt == <<>>

Some(n) == <<n>>

Digits == {"1", "2", "3"}

\* "-" is a sign in front of digits and garbage anywhere else.
Alphabet == Digits \cup {"-", " "}

Strings == UNION {[1..n -> Alphabet] : n \in 0..MaxInputLen}

DigitVal(c) ==
    CASE c = "1" -> 1 [] c = "2" -> 2 [] c = "3" -> 3

RECURSIVE LStrip(_)
LStrip(s) == IF s # <<>> /\ Head(s) = " " THEN LStrip(Tail(s)) ELSE s

RECURSIVE RStrip(_)
RStrip(s) ==
    IF s # <<>> /\ s[Len(s)] = " " THEN RStrip(SubSeq(s, 1, Len(s) - 1)) ELSE s

\* str.strip()
Strip(s) == RStrip(LStrip(s))

RECURSIVE DecimalValue(_)
DecimalValue(s) ==
    IF s = <<>> THEN 0
    ELSE 10 * DecimalValue(SubSeq(s, 1, Len(s) - 1)) + DigitVal(s[Len(s)])

AllDigits(s) == s # <<>> /\ \A i \in 1..Len(s) : s[i] \in Digits

\* str.isdigit()
IsDigitStr(s) == AllDigits(s)

\* int(s): surrounding whitespace is ignored, one sign is allowed, the rest must be
\* digits; anything else is a ValueError.
ParseInt(s) ==
    LET t == Strip(s)
        neg == t # <<>> /\ Head(t) = "-"
        body == IF neg THEN Tail(t) ELSE t
    IN IF AllDigits(body)
       THEN [ok |-> TRUE, val |-> IF neg THEN 0 - DecimalValue(body) ELSE DecimalValue(body)]
       ELSE [ok |-> FALSE, val |-> 0]

----------------------------------------------------------------------------
(* The account directories                                                 *)

AkahuIds == {"a1", "a2"}

LatestAkahuAccounts ==
    << [id |-> "a1", name |-> "Everyday", connection |-> "BankA"],
       [id |-> "a2", name |-> "Savings",  connection |-> "BankA"] >>

\* Two Actual accounts share a display name; t3 is off budget.
LatestActualAccounts ==
    << [id |-> "t1", name |-> "Checking", offbudget |-> FALSE],
       [id |-> "t2", name |-> "Saver",    offbudget |-> FALSE],
       [id |-> "t3", name |-> "Checking", offbudget |-> TRUE] >>

LatestYnabAccounts ==
    << [id |-> "y1", name |-> "Cheque"],
       [id |-> "y2", name |-> "Rainy Day"] >>

\* The Actual accounts as get_accounts returns them, none closed.
WithClosedFlag(accts) == [i \in 1..Len(accts) |-> Put(accts[i], "closed", FALSE)]

\* The directories with every account of the model present and open.
FullWorld ==
    [akahu |-> LatestAkahuAccounts, actual |-> WithClosedFlag(LatestActualAccounts),
     ynab |-> LatestYnabAccounts]

AkahuNames == {LatestAkahuAccounts[i].name : i \in 1..Len(LatestAkahuAccounts)}

TargetNames ==
    {LatestActualAccounts[i].name : i \in 1..Len(LatestActualAccounts)}
        \cup {LatestYnabAccounts[i].name : i \in 1..Len(LatestYnabAccounts)}

----------------------------------------------------------------------------
(* akahu_budget_mapping.py: validation and the suggestion strategies       *)

TargetKey(account_type) ==
    IF account_type = "actual" THEN "actual_account_id" ELSE "ynab_account_id"

TargetNameKey(account_type) ==
    IF account_type = "actual" THEN "actual_account_name" ELSE "ynab_account_name"

\* for idx, target_account in enumerate(target_accounts, start=1): target_account['seq'] = idx
WithSeq(accts) == [i \in 1..Len(accts) |-> Put(accts[i], "seq", i)]

\* any(account_id == mapping.get(target_account_key) for mapping in ....values())
IsAlreadyMapped(account_id, akahu_to_account_mapping, target_account_key) ==
    \E a \in DOMAIN akahu_to_account_mapping :
        Get(akahu_to_account_mapping[a], target_account_key) = account_id

\* A bug the mapper could have: the "Already Mapped" check left out.
validate_user_input_unchecked(response_content, target_accounts, akahu_to_account_mapping, target_account_key) ==
    LET p == ParseInt(response_content)
        hits == {i \in 1..Len(target_accounts) : target_accounts[i].seq = p.val}
    IN IF p.ok /\ hits # {} THEN Some(p.val) ELSE NoneInt

validate_user_input(response_content, target_accounts, akahu_to_account_mapping, target_account_key) ==
    LET p == ParseInt(response_content)
        hits == {i \in 1..Len(target_accounts) : target_accounts[i].seq = p.val}
    IN IF ~p.ok THEN NoneInt
       ELSE IF hits = {} THEN NoneInt
       ELSE LET account == target_accounts[Min(hits)]
            IN IF ~IsAlreadyMapped(account.id, akahu_to_account_mapping, target_account_key)
               THEN Some(p.val)
               ELSE NoneInt

RECURSIVE SortedSeq(_)
SortedSeq(S) == IF S = {} THEN <<>> ELSE <<Min(S)>> \o SortedSeq(S \ {Min(S)})

\* fuzzywuzzy.process.extractOne(query, choices): the first choice of maximal score.
extractOne(query, choices) ==
    LET best == CHOOSE i \in 1..Len(choices) :
                    /\ \A j \in 1..Len(choices) : scores[<<query, choices[j]>>] <= scores[<<query, choices[i]>>]
                    /\ \A j \in 1..(i - 1) : scores[<<query, choices[j]>>] < scores[<<query, choices[i]>>]
    IN [name |-> choices[best], confidence |-> scores[<<query, choices[best]>>]]

FuzzyThreshold == 50

\* A bug the heuristic could have: every candidate is scored, mapped or not, so the
\* winner may be an "Already Mapped" account.
get_fuzzy_match_suggestion_all(akahu_account, target_accounts, akahu_to_account_mapping, target_account_key) ==
    LET names == [k \in 1..Len(target_accounts) |-> target_accounts[k].name]
    IN IF names # <<>>
       THEN LET m == extractOne(akahu_account.name, names)
            IN IF m.confidence >= FuzzyThreshold
               THEN Some(Min({k \in 1..Len(names) : names[k] = m.name}))
               ELSE NoneInt
       ELSE NoneInt

get_fuzzy_match_suggestion(akahu_account, target_accounts, akahu_to_account_mapping, target_account_key) ==
    LET unmapped_indices ==
            SortedSeq({idx \in 1..Len(target_accounts) :
                ~IsAlreadyMapped(target_accounts[idx].id, akahu_to_account_mapping, target_account_key)})
        unmapped_accounts ==
            [k \in 1..Len(unmapped_indices) |-> target_accounts[unmapped_indices[k]].name]
    IN IF unmapped_accounts # <<>>
       THEN LET m == extractOne(akahu_account.name, unmapped_accounts)
            IN IF m.confidence >= FuzzyThreshold
               THEN LET best_match_index ==
                            Min({k \in 1..Len(unmapped_accounts) : unmapped_accounts[k] = m.name})
                    IN Some(unmapped_indices[best_match_index])
               ELSE NoneInt
       ELSE NoneInt

\* What client.chat.completions.create can do: raise (network error, rate limit,
\* timeout) or answer with some text.
AdvisorOutcomes ==
    {[raises |-> TRUE, content |-> <<>>]} \cup {[raises |-> FALSE, content |-> c] : c \in Strings}

\* A bug the advisory strategy could have: the advisor's number is trusted when it
\* names a listed account, without the "Already Mapped" check.
get_openai_match_suggestion_trusting(akahu_account, target_accounts, akahu_to_account_mapping, target_account_key, advisor) ==
    LET chosen_index ==
            IF advisor.raises THEN NoneInt
            ELSE validate_user_input_unchecked(Strip(advisor.content), target_accounts,
                                               akahu_to_account_mapping, target_account_key)
    IN IF chosen_index # NoneInt
       THEN chosen_index
       ELSE get_fuzzy_match_suggestion(akahu_account, target_accounts,
                                       akahu_to_account_mapping, target_account_key)

get_openai_match_suggestion(akahu_account, target_accounts, akahu_to_account_mapping, target_account_key, advisor) ==
    LET chosen_index ==
            IF advisor.raises THEN NoneInt
            ELSE validate_user_input(Strip(advisor.content), target_accounts,
                                     akahu_to_account_mapping, target_account_key)
    IN IF chosen_index # NoneInt
       THEN chosen_index
       ELSE get_fuzzy_match_suggestion(akahu_account, target_accounts,
                                       akahu_to_account_mapping, target_account_key)

\* A bug the lookup could have: the number is taken as a 0-based position.
seq_to_acct_zero_based(suggested_index, target_accounts) ==
    target_accounts[(suggested_index % Len(target_accounts)) + 1]

seq_to_acct(suggested_index, target_accounts) ==
    LET hits == {i \in 1..Len(target_accounts) : target_accounts[i].seq = suggested_index}
    IN target_accounts[Min(hits)]

----------------------------------------------------------------------------
(* The durable files.  A JSON list of entries, each carrying its akahu_id,  *)
(* is kept as the function akahu_id -> entry together with its shape; the   *)
(* order of the list is not modelled.                                       *)

FileToBudget == "akahu_to_budget_mapping.json"

FileBudget == "akahu_budget_mapping.json"

FileNames == {FileToBudget, FileBudget}

NoFile == [exists |-> FALSE]

\* ACTUAL_SYNC_ID of the environment
ActualSyncId == "sync-id"

\* json.load(f) returns for a file that holds a whole document and raises
\* JSONDecodeError for an empty or half-written one.
JsonReadable(f) == f.shape \in {"list", "dict"}

\* What a load finds: no file, a file json.load rejects, or a store.
Found(f) ==
    IF ~f.exists THEN "missing" ELSE IF JsonReadable(f) THEN "store" ELSE "malformed"

\* A bug the load could have: a file that cannot be decoded is taken for an empty store.
budget_load_existing_mapping_lenient(f) ==
    IF f.exists /\ JsonReadable(f)
    THEN [akahu_accounts |-> f.akahu_accounts, actual_accounts |-> f.actual_accounts,
          ynab_accounts |-> f.ynab_accounts, mapping |-> f.mapping, raised |-> "no"]
    ELSE [akahu_accounts |-> <<>>, actual_accounts |-> <<>>,
          ynab_accounts |-> <<>>, mapping |-> EmptyDict, raised |-> "no"]

\* akahu_budget_mapping.py, load_existing_mapping: a list mapping is re-keyed by
\* akahu_id; a missing file gives four empty dicts; json.load raises on a file that is
\* not a JSON document.
budget_load_existing_mapping(f) ==
    IF ~f.exists
    THEN [akahu_accounts |-> <<>>, actual_accounts |-> <<>>,
          ynab_accounts |-> <<>>, mapping |-> EmptyDict, raised |-> "no"]
    ELSE IF ~JsonReadable(f)
    THEN [akahu_accounts |-> <<>>, actual_accounts |-> <<>>,
          ynab_accounts |-> <<>>, mapping |-> EmptyDict, raised |-> "JSONDecodeError"]
    ELSE [akahu_accounts |-> f.akahu_accounts, actual_accounts |-> f.actual_accounts,
          ynab_accounts |-> f.ynab_accounts, mapping |-> f.mapping, raised |-> "no"]

\* akahu_actual_mapping.py, load_existing_mapping
actual_load_existing_mapping(f) ==
    IF ~f.exists
    THEN [akahu_accounts |-> <<>>, actual_accounts |-> <<>>, mapping |-> EmptyDict,
          raised |-> "no"]
    ELSE IF ~JsonReadable(f)
    THEN [akahu_accounts |-> <<>>, actual_accounts |-> <<>>, mapping |-> EmptyDict,
          raised |-> "JSONDecodeError"]
    ELSE [akahu_accounts |-> f.akahu_accounts, actual_accounts |-> f.actual_accounts,
          mapping |-> f.mapping, raised |-> "no"]

\* The last start of a process: which script, what its load found and raised, and
\* whether the script went on after the load.  importer: whether akahu_to_budget.py
\* is serving.  first: the store file before any process ran.
IdleBoot ==
    [who |-> "none", found |-> "none", raised |-> "no", continued |-> FALSE,
     store_empty |-> FALSE, importer |-> "off", first |-> [exists |-> FALSE]]

BootRecord(who, f, loaded) ==
    [pr EXCEPT !.who = who, !.found = Found(f), !.raised = loaded.raised,
               !.continued = loaded.raised = "no",
               !.store_empty = DOMAIN loaded.mapping = {} /\ loaded.akahu_accounts = <<>>]

Ids(accts) == {accts[i].id : i \in 1..Len(accts)}

ById(accts, id) == accts[Min({i \in 1..Len(accts) : accts[i].id = id})]

\* A bug the merge could have: every account is stamped with the current date.
combine_accounts_restamping(latest_accounts, existing_accounts, current_date) ==
    [combined |->
        [i \in 1..Len(latest_accounts) |->
            Put(latest_accounts[i], "date_first_loaded", current_date)],
     deleted |-> Ids(existing_accounts) \ Ids(latest_accounts)]

\* A bug the merge could have: accounts that vanished are carried over from the existing
\* list instead of being reported.
combine_accounts_keeping(latest_accounts, existing_accounts, current_date) ==
    [combined |->
        [i \in 1..Len(latest_accounts) |->
            Put(latest_accounts[i], "date_first_loaded",
                IF latest_accounts[i].id \in Ids(existing_accounts)
                THEN ById(existing_accounts, latest_accounts[i].id).date_first_loaded
                ELSE current_date)]
        \o SelectSeq(existing_accounts, LAMBDA acc : acc.id \notin Ids(latest_accounts)),
     deleted |-> {}]

\* akahu_budget_mapping.py, combine_accounts
combine_accounts(latest_accounts, existing_accounts, current_date) ==
    [combined |->
        [i \in 1..Len(latest_accounts) |->
            Put(latest_accounts[i], "date_first_loaded",
                IF latest_accounts[i].id \in Ids(existing_accounts)
                THEN LET e == ById(existing_accounts, latest_accounts[i].id)
                     IN IF "date_first_loaded" \in DOMAIN e THEN e.date_first_loaded
                        ELSE current_date
                ELSE current_date)],
     deleted |-> Ids(existing_accounts) \ Ids(latest_accounts)]

\* akahu_budget_mapping.py, merge_and_update_mapping.  The target ids are read with
\* .get("actual", {}).get("id") and .get("ynab", {}).get("id"); an entry holds its
\* target ids under actual_account_id / ynab_account_id, so these are None unless an
\* entry has such a nested field, and only vanished Akahu accounts are ever listed.
budget_merge_and_update_mapping(existing_mapping, latest_akahu, latest_actual, latest_ynab, existing_akahu, existing_actual, existing_ynab, current_date, confirmation) ==
    LET akahu == combine_accounts(latest_akahu, existing_akahu, current_date)
        actual == combine_accounts(latest_actual, existing_actual, current_date)
        ynab == combine_accounts(latest_ynab, existing_ynab, current_date)
        NestedId(e, k) == IF k \in DOMAIN e THEN Get(e[k], "id") ELSE None
        akahu_to_delete == {a \in DOMAIN existing_mapping : a \notin Ids(akahu.combined)}
        kept == DOMAIN existing_mapping \ akahu_to_delete
        actual_to_delete ==
            {a \in kept : /\ NestedId(existing_mapping[a], "actual") # None
                          /\ NestedId(existing_mapping[a], "actual") \notin Ids(actual.combined)}
        ynab_to_delete ==
            {a \in kept : /\ NestedId(existing_mapping[a], "ynab") # None
                          /\ NestedId(existing_mapping[a], "ynab") \notin Ids(ynab.combined)}
        Clear(e, kind) ==
            IF Get(e, kind \o "_account_id") = NestedId(e, kind)
            THEN Put(Put(Put(Put(e, kind \o "_account_id", None), kind \o "_budget_id", None),
                         kind \o "_budget_name", None), kind \o "_account_name", None)
            ELSE e
        asked == akahu_to_delete # {} \/ actual_to_delete # {} \/ ynab_to_delete # {}
        updated_mapping ==
            IF asked /\ confirmation
            THEN [a \in kept |->
                    LET e1 == IF a \in actual_to_delete
                              THEN Clear(existing_mapping[a], "actual") ELSE existing_mapping[a]
                    IN IF a \in ynab_to_delete THEN Clear(e1, "ynab") ELSE e1]
            ELSE existing_mapping
    IN [mapping |-> updated_mapping, akahu_accounts |-> akahu.combined,
        actual_accounts |-> actual.combined, ynab_accounts |-> ynab.combined]

\* akahu_actual_mapping.py, merge_and_update_mapping: every latest account is stamped
\* with the current date; entries whose Akahu or Actual account vanished are dropped.
actual_merge_and_update_mapping(existing_mapping, latest_akahu, latest_actual, current_date) ==
    LET Stamp(accts) ==
            [i \in 1..Len(accts) |->
                IF "date_first_loaded" \in DOMAIN accts[i] THEN accts[i]
                ELSE Put(accts[i], "date_first_loaded", current_date)]
        akahu_to_remove == {a \in DOMAIN existing_mapping : a \notin Ids(latest_akahu)}
        m1 == [a \in DOMAIN existing_mapping \ akahu_to_remove |-> existing_mapping[a]]
        actual_to_remove == {a \in DOMAIN m1 : m1[a].actual_account_id \notin Ids(latest_actual)}
        m2 == [a \in DOMAIN m1 \ actual_to_remove |-> m1[a]]
        Keep(accts, gone) == SelectSeq(accts, LAMBDA acc : acc.id \notin gone)
    IN [mapping |-> m2,
        akahu_accounts |-> Keep(Stamp(latest_akahu), akahu_to_remove),
        actual_accounts |-> Keep(Stamp(latest_actual), actual_to_remove)]

----------------------------------------------------------------------------
(* The mapper scripts.  A run is main(): load, fetch, merge, then one prompt *)
(* per Akahu account and pass, then save.  Each run starts one clock tick    *)
(* after the previous one.                                                   *)

\* What the typed answer is, by the rules of the prompt: no integer, an integer that is
\* no displayed index, the index of a candidate some entry holds under the key, or the
\* index of a free candidate.
ChoiceClass(user_input, displayed, mapping, key) ==
    LET p == ParseInt(user_input)
    IN IF ~p.ok THEN "not_integer"
       ELSE IF p.val \notin 1..Len(displayed) THEN "no_such_index"
       ELSE IF \E a \in DOMAIN mapping : Get(mapping[a], key) = displayed[p.val].id
       THEN "already_mapped"
       ELSE "valid"

EntryOf(mapping, akahu_id) == IF akahu_id \in DOMAIN mapping THEN mapping[akahu_id] ELSE EmptyDict

\* The last pass of the prompt loop: the Akahu account and backend key it was for, what
\* was typed (its class and, for an index that is displayed, the index and the candidate
\* displayed there), the account's
\* entry before and after, and whether the whole mapping stayed as it was.
NoStep ==
    [tool |-> "none", akahu_id |-> None, key |-> None, verdict |-> "none", index |-> 0,
     shown |-> EmptyDict, before |-> EmptyDict, after |-> EmptyDict, same |-> TRUE]

StepRecord(tool, mapping, m2, akahu_id, key, user_input, displayed) ==
    LET c == ChoiceClass(user_input, displayed, mapping, key)
        listed == c \in {"already_mapped", "valid"}
    IN [tool |-> tool, akahu_id |-> akahu_id, key |-> key, verdict |-> c,
        index |-> IF listed THEN ParseInt(user_input).val ELSE 0,
        shown |-> IF listed THEN displayed[ParseInt(user_input).val] ELSE EmptyDict,
        before |-> EntryOf(mapping, akahu_id), after |-> EntryOf(m2, akahu_id),
        same |-> m2 = mapping]

\* What merge_and_update_mapping did at the start of the current run: the mapping it was
\* given and the one it returned, and the ids of the directories it returned.
NoRefresh ==
    [tool |-> "none", before |-> EmptyDict, after |-> EmptyDict,
     akahu_ids |-> {}, actual_ids |-> {}, ynab_ids |-> {}]

RefreshRecord(tool, existing_mapping, merged) ==
    [tool |-> tool, before |-> existing_mapping, after |-> merged.mapping,
     akahu_ids |-> Ids(merged.akahu_accounts), actual_ids |-> Ids(merged.actual_accounts),
     ynab_ids |-> IF tool = "budget" THEN Ids(merged.ynab_accounts) ELSE {}]

IdleMapper ==
    [tool |-> "none", pc |-> "idle", pass |-> "none", i |-> 0, mapping |-> EmptyDict,
     akahu_accounts |-> <<>>, actual_accounts |-> <<>>, ynab_accounts |-> <<>>,
     last |-> NoStep, refresh |-> NoRefresh]

\* akahu_budget_mapping.py, match_accounts, the entry written at lines 493-499
budget_new_entry(account_type, selected_account, akahu_account, date) ==
    [k \in {TargetKey(account_type), TargetNameKey(account_type),
            "akahu_id", "akahu_name", "matched_date"} |->
        CASE k = TargetKey(account_type) -> selected_account.id
          [] k = TargetNameKey(account_type) -> selected_account.name
          [] k = "akahu_id" -> akahu_account.id
          [] k = "akahu_name" -> akahu_account.name
          [] k = "matched_date" -> date]

\* A bug the prompt loop could have: an answer that is not accepted leaves a placeholder
\* entry for the account.
budget_match_one_placeholder(akahu_to_account_mapping, akahu_account, target_accounts, account_type, user_input, date) ==
    LET target_account_key == TargetKey(account_type)
        akahu_id == akahu_account.id
    IN IF /\ akahu_id \in DOMAIN akahu_to_account_mapping
          /\ target_account_key \in DOMAIN akahu_to_account_mapping[akahu_id]
       THEN akahu_to_account_mapping
       ELSE LET validated_index ==
                    validate_user_input(user_input, target_accounts,
                                        akahu_to_account_mapping, target_account_key)
            IN IF validated_index = NoneInt
               THEN Put(akahu_to_account_mapping, akahu_id,
                        [akahu_id |-> akahu_id, akahu_name |-> akahu_account.name])
               ELSE Put(akahu_to_account_mapping, akahu_id,
                        budget_new_entry(account_type,
                                         seq_to_acct(validated_index[1], target_accounts),
                                         akahu_account, date))

\* akahu_budget_mapping.py, match_accounts, the body of the loop for one Akahu account:
\* the mapping after it.  An account already holding the key is skipped; otherwise the
\* typed answer is validated and, if valid, the entry is replaced.
budget_match_one(akahu_to_account_mapping, akahu_account, target_accounts, account_type, user_input, date) ==
    LET target_account_key == TargetKey(account_type)
        akahu_id == akahu_account.id
    IN IF /\ akahu_id \in DOMAIN akahu_to_account_mapping
          /\ target_account_key \in DOMAIN akahu_to_account_mapping[akahu_id]
       THEN akahu_to_account_mapping
       ELSE LET validated_index ==
                    validate_user_input(user_input, target_accounts,
                                        akahu_to_account_mapping, target_account_key)
            IN IF validated_index = NoneInt
               THEN akahu_to_account_mapping
               ELSE Put(akahu_to_account_mapping, akahu_id,
                        budget_new_entry(account_type,
                                         seq_to_acct(validated_index[1], target_accounts),
                                         akahu_account, date))

\* akahu_budget_mapping.py, save_mapping: the mapping is written as the dict it is.
budget_save_mapping(mapping, akahu_accounts, actual_accounts, ynab_accounts) ==
    [exists |-> TRUE, shape |-> "dict", mapping |-> mapping,
     akahu_accounts |-> akahu_accounts, actual_accounts |-> actual_accounts,
     ynab_accounts |-> ynab_accounts]

\* [acc for acc in latest_actual_accounts if not acc.closed]
NotClosed(accts) == SelectSeq(accts, LAMBDA acc : ~acc.closed)

\* The Actual accounts as akahu_budget_mapping.main hands them on: id and name only.
OpenActualAccounts(accts) == [i \in 1..Len(accts) |-> [id |-> accts[i].id, name |-> accts[i].name]]

\* The Actual accounts as akahu_actual_mapping.main hands them on: the open accounts,
\* dumped (of the dumped fields the model keeps id, name and offbudget).
DumpedActualAccounts(accts) ==
    [i \in 1..Len(accts) |->
        [id |-> accts[i].id, name |-> accts[i].name, offbudget |-> accts[i].offbudget]]

\* akahu_budget_mapping.py, main, up to the first prompt.  An exception of the load is
\* caught by main's "except Exception", which logs it and ends the run.
BudgetMapperStart(confirmation) ==
    /\ mp.pc = "idle"
    /\ now < MaxClock
    /\ now' = now + 1
    /\ LET loaded == budget_load_existing_mapping(files[FileToBudget])
           merged == budget_merge_and_update_mapping(
                         loaded.mapping, world.akahu,
                         OpenActualAccounts(NotClosed(world.actual)), world.ynab,
                         loaded.akahu_accounts, loaded.actual_accounts, loaded.ynab_accounts,
                         now', confirmation)
       IN /\ pr' = BootRecord("akahu_budget_mapping", files[FileToBudget], loaded)
          /\ mp' = IF loaded.raised # "no"
                   THEN IdleMapper
                   ELSE [tool |-> "budget", pc |-> "match", pass |-> "ynab", i |-> 1,
                         mapping |-> merged.mapping,
                         akahu_accounts |-> merged.akahu_accounts,
                         actual_accounts |-> merged.actual_accounts,
                         ynab_accounts |-> WithSeq(merged.ynab_accounts),
                         last |-> NoStep,
                         refresh |-> RefreshRecord("budget", loaded.mapping, merged)]
    /\ UNCHANGED <<sav, ft, yn, tk, world, cb, files, scores, sg, g_mapping_list, g_accounts, ledger, wh, sy, im>>

\* akahu_budget_mapping.py, match_accounts: one Akahu account of the current pass; after
\* the last account of the YNAB pass the Actual pass starts, after the last account of
\* the Actual pass main() saves and ends.
BudgetMatchStep(user_input) ==
    /\ mp.tool = "budget" /\ mp.pc = "match"
    /\ LET targets == IF mp.pass = "ynab" THEN mp.ynab_accounts ELSE mp.actual_accounts
           m2 == budget_match_one(mp.mapping, mp.akahu_accounts[mp.i], targets,
                                  mp.pass, user_input, now)
           step == StepRecord("budget", mp.mapping, m2, mp.akahu_accounts[mp.i].id, TargetKey(mp.pass),
                              user_input, WithSeq(targets))
       IN IF mp.i < Len(mp.akahu_accounts)
          THEN /\ mp' = [mp EXCEPT !.mapping = m2, !.i = mp.i + 1, !.last = step]
               /\ files' = files
          ELSE IF mp.pass = "ynab"
          THEN /\ mp' = [mp EXCEPT !.mapping = m2, !.i = 1, !.pass = "actual",
                                   !.actual_accounts = WithSeq(mp.actual_accounts),
                                   !.last = step]
               /\ files' = files
          ELSE /\ mp' = [IdleMapper EXCEPT !.last = step]
               /\ files' = [files EXCEPT ![FileBudget] =
                               budget_save_mapping(m2, mp.akahu_accounts,
                                                   mp.actual_accounts, mp.ynab_accounts)]
    /\ UNCHANGED <<sav, pr, ft, yn, tk, world, cb, now, scores, sg, g_mapping_list, g_accounts, ledger, wh, sy, im>>

\* The alphabetical order of the account names used by the model.
NameRank(name) ==
    CASE name = "Checking" -> 1 [] name = "Cheque" -> 2
      [] name = "Rainy Day" -> 3 [] name = "Saver" -> 4

\* sorted(actual_account_names.items(), key=lambda x: x[1]): by name, ties in list order
sorted_actual_accounts(accts) ==
    LET n == Len(accts)
        keys == SortedSeq({NameRank(accts[i].name) * (n + 1) + i : i \in 1..n})
    IN [k \in 1..n |-> accts[keys[k] % (n + 1)]]

\* akahu_actual_mapping.py, match_accounts, the entry written at lines 179-189
actual_new_entry(selected, akahu, date) ==
    [actual_budget_name |-> "Household Budget",
     actual_account_name |-> selected.name,
     account_type |-> IF selected.offbudget THEN "Tracking" ELSE "On Budget",
     akahu_name |-> akahu.name,
     akahu_id |-> akahu.id,
     actual_budget_id |-> ActualSyncId,
     actual_account_id |-> selected.id,
     note |-> None,
     matched_date |-> date]

\* A bug the older mapper could have: the "already mapped" test left out.
actual_match_one_unchecked(mapping, akahu, actual_accounts, user_choice, date) ==
    LET sorted == sorted_actual_accounts(actual_accounts)
    IN IF akahu.id \in DOMAIN mapping THEN mapping
       ELSE IF IsDigitStr(user_choice) /\ 1 <= DecimalValue(user_choice)
                                       /\ DecimalValue(user_choice) <= Len(sorted)
       THEN Put(mapping, akahu.id, actual_new_entry(sorted[DecimalValue(user_choice)], akahu, date))
       ELSE mapping

\* akahu_actual_mapping.py, match_accounts, the body of the loop for one Akahu account
actual_match_one(mapping, akahu, actual_accounts, user_choice, date) ==
    LET sorted == sorted_actual_accounts(actual_accounts)
    IN IF akahu.id \in DOMAIN mapping THEN mapping
       ELSE IF IsDigitStr(user_choice) /\ 1 <= DecimalValue(user_choice)
                                       /\ DecimalValue(user_choice) <= Len(sorted)
       THEN LET selected == sorted[DecimalValue(user_choice)]
            IN IF selected.id \notin {mapping[a].actual_account_id : a \in DOMAIN mapping}
               THEN Put(mapping, akahu.id, actual_new_entry(selected, akahu, date))
               ELSE mapping
       ELSE mapping

\* akahu_actual_mapping.py, save_mapping: the mapping is written as a list of entries,
\* with no ynab_accounts field.
actual_save_mapping(existing_mapping, akahu_accounts, actual_accounts) ==
    [exists |-> TRUE, shape |-> "list", mapping |-> existing_mapping,
     akahu_accounts |-> akahu_accounts, actual_accounts |-> actual_accounts,
     ynab_accounts |-> <<>>]

\* akahu_actual_mapping.py, main, up to the first prompt.  An exception of the load is
\* caught by main's "except Exception", which logs it and ends the run.
ActualMapperStart ==
    /\ mp.pc = "idle"
    /\ now < MaxClock
    /\ now' = now + 1
    /\ LET loaded == actual_load_existing_mapping(files[FileToBudget])
           merged == actual_merge_and_update_mapping(
                         loaded.mapping, world.akahu,
                         DumpedActualAccounts(NotClosed(world.actual)), now')
       IN /\ pr' = BootRecord("akahu_actual_mapping", files[FileToBudget], loaded)
          /\ mp' = IF loaded.raised # "no"
                   THEN IdleMapper
                   ELSE [tool |-> "actual", pc |-> "match", pass |-> "actual", i |-> 1,
                         mapping |-> merged.mapping,
                         akahu_accounts |-> merged.akahu_accounts,
                         actual_accounts |-> merged.actual_accounts,
                         ynab_accounts |-> <<>>,
                         last |-> NoStep,
                         refresh |-> RefreshRecord("actual", loaded.mapping, merged)]
    /\ UNCHANGED <<sav, ft, yn, tk, world, cb, files, scores, sg, g_mapping_list, g_accounts, ledger, wh, sy, im>>

\* akahu_actual_mapping.py, match_accounts: one Akahu account; after the last one main()
\* saves and ends.
ActualMatchStep(user_choice) ==
    /\ mp.tool = "actual" /\ mp.pc = "match"
    /\ LET m2 == actual_match_one(mp.mapping, mp.akahu_accounts[mp.i],
                                  mp.actual_accounts, user_choice, now)
           step == StepRecord("actual", mp.mapping, m2, mp.akahu_accounts[mp.i].id, "actual_account_id",
                              user_choice, sorted_actual_accounts(mp.actual_accounts))
       IN IF mp.i < Len(mp.akahu_accounts)
          THEN /\ mp' = [mp EXCEPT !.mapping = m2, !.i = mp.i + 1, !.last = step]
               /\ files' = files
          ELSE /\ mp' = [IdleMapper EXCEPT !.last = step]
               /\ files' = [files EXCEPT ![FileToBudget] =
                               actual_save_mapping(m2, mp.akahu_accounts, mp.actual_accounts)]
    /\ UNCHANGED <<sav, pr, ft, yn, tk, world, cb, now, scores, sg, g_mapping_list, g_accounts, ledger, wh, sy, im>>

\* The directories the APIs return differ from one run to the next: between two runs an
\* account is gone from one of them, or an Actual account has been closed.  At least one
\* Akahu account stays.
Without(accts, id) == SelectSeq(accts, LAMBDA acc : acc.id # id)

Closing(accts, id) ==
    [i \in 1..Len(accts) |-> IF accts[i].id = id THEN [accts[i] EXCEPT !.closed = TRUE] ELSE accts[i]]

DirectoryChange(change, id) ==
    /\ mp.pc = "idle"
    /\ world = FullWorld
    /\ \/ /\ change = "akahu_gone"
          /\ id \in Ids(world.akahu)
          /\ world' = [world EXCEPT !.akahu = Without(world.akahu, id)]
       \/ /\ change = "actual_gone"
          /\ id \in Ids(world.actual)
          /\ world' = [world EXCEPT !.actual = Without(world.actual, id)]
       \/ /\ change = "actual_closed"
          /\ id \in Ids(world.actual)
          /\ world' = [world EXCEPT !.actual = Closing(world.actual, id)]
       \/ /\ change = "ynab_gone"
          /\ id \in Ids(world.ynab)
          /\ world' = [world EXCEPT !.ynab = Without(world.ynab, id)]
    /\ UNCHANGED <<sav, pr, ft, yn, tk, cb, files, now, mp, scores, sg, g_mapping_list, g_accounts, ledger, wh, sy, im>>

----------------------------------------------------------------------------
(* The suggestion functions applied to drawn arguments                     *)

ScoreVals == {40, 50, 60}

\* A score for every (query, choice) pair; the ones a call does not read are 0.
ScoreTables(query, names) ==
    {[p \in AkahuNames \X TargetNames |-> IF p[1] = query /\ p[2] \in names THEN t[p[2]] ELSE 0] :
        t \in [names -> ScoreVals]}

DefaultScores == [p \in AkahuNames \X TargetNames |-> 0]

CandidatesOf(account_type) ==
    IF account_type = "actual" THEN OpenActualAccounts(LatestActualAccounts)
    ELSE LatestYnabAccounts

\* Mappings as any earlier run or hand edit may have left them: an Akahu account has no
\* entry, an entry without the key, the key holding None, or the key holding a target.
DrawnMappings(account_type) ==
    LET key == TargetKey(account_type)
        vals == Ids(CandidatesOf(account_type)) \cup {None}
        Entry(a, v) == [k \in {"akahu_id", key} |-> IF k = key THEN v ELSE a]
        Bare(a) == [k \in {"akahu_id"} |-> a]
    IN UNION {
         { [a \in D |-> IF f[a] = "nokey" THEN Bare(a) ELSE Entry(a, f[a])] :
             f \in [D -> vals \cup {"nokey"}] } : D \in SUBSET AkahuIds }

IdleSuggest ==
    [phase |-> "none", akahu_account |-> LatestAkahuAccounts[1], account_type |-> "actual",
     target_accounts |-> <<>>, mapping |-> EmptyDict, fuzzy |-> NoneInt, openai |-> NoneInt,
     advisor |-> [raises |-> TRUE, content |-> <<>>]]

\* One call of each suggestion function on the drawn arguments; the advisor's outcome
\* during the call is kept with the results.
Suggest(advisor) ==
    /\ sg.phase = "in"
    /\ sg' = [sg EXCEPT
                !.phase = "out",
                !.advisor = advisor,
                !.fuzzy = get_fuzzy_match_suggestion(sg.akahu_account, sg.target_accounts,
                                                     sg.mapping, TargetKey(sg.account_type)),
                !.openai = get_openai_match_suggestion(sg.akahu_account, sg.target_accounts,
                                                       sg.mapping, TargetKey(sg.account_type),
                                                       advisor)]
    /\ UNCHANGED <<sav, pr, ft, yn, tk, world, cb, files, now, mp, scores, g_mapping_list, g_accounts, ledger, wh, sy, im>>

----------------------------------------------------------------------------
(* match_accounts with the advisory call taken apart: the request to the   *)
(* advisor, its return, and the prompt that follows.                       *)

\* How the advisor's server may behave on a request: it answers, it fails, or it
\* accepts the request and never answers.
AdvisorBehaviours == {"answers", "errors", "silent"}

\* client = openai.OpenAI(api_key=...) and client.chat.completions.create(...) name no
\* timeout, which leaves the client's default of 600 seconds for every request.
DefaultClientTimeout == 600

\* A bug the mapper could have: a client built to wait without limit.
chat_completions_create_unbounded(behaviour, content, timeout) ==
    CASE behaviour = "answers" -> [returns |-> TRUE, raises |-> FALSE, content |-> content]
      [] behaviour = "errors" -> [returns |-> TRUE, raises |-> TRUE, content |-> <<>>]
      [] behaviour = "silent" -> [returns |-> FALSE, raises |-> FALSE, content |-> <<>>]

\* client.chat.completions.create: the answer, an exception of the client (a silent
\* server ends in its timeout exception), or, without a timeout, no return at all.
chat_completions_create(behaviour, content, timeout) ==
    CASE behaviour = "answers" -> [returns |-> TRUE, raises |-> FALSE, content |-> content]
      [] behaviour = "errors" -> [returns |-> TRUE, raises |-> TRUE, content |-> <<>>]
      [] behaviour = "silent" -> [returns |-> timeout # NoneInt, raises |-> timeout # NoneInt,
                                  content |-> <<>>]

\* match_accounts at its account i of the pass: phase "in" before the advisory call,
\* "calling" while the client is in the request, "out" at the prompt, "done" after the
\* last account.
AdviseRecord(account_type, i, mapping) ==
    [phase |-> "in", akahu_account |-> LatestAkahuAccounts[i], account_type |-> account_type,
     target_accounts |-> WithSeq(CandidatesOf(account_type)), mapping |-> mapping,
     fuzzy |-> NoneInt, openai |-> NoneInt, advisor |-> IdleSuggest.advisor,
     behaviour |-> "none", call |-> [returns |-> TRUE, raises |-> FALSE, content |-> <<>>],
     i |-> i]

\* get_openai_match_suggestion, lines 343-354: the request is sent.
AdviseCall(behaviour, content) ==
    /\ sg.phase = "in"
    /\ "behaviour" \in DOMAIN sg
    /\ sg' = [sg EXCEPT !.phase = "calling", !.behaviour = behaviour,
                        !.call = chat_completions_create(behaviour, content,
                                                         Some(DefaultClientTimeout))]
    /\ UNCHANGED <<sav, pr, ft, yn, tk, world, cb, files, now, mp, scores, g_mapping_list, g_accounts, ledger, wh, sy, im>>

\* get_openai_match_suggestion, lines 356-366: the call has returned or raised, and the
\* function returns the advisor's validated index or the heuristic's suggestion.
AdviseReturn ==
    /\ sg.phase = "calling"
    /\ sg.call.returns
    /\ LET advisor == [raises |-> sg.call.raises, content |-> sg.call.content]
       IN sg' = [sg EXCEPT
                    !.phase = "out",
                    !.advisor = advisor,
                    !.fuzzy = get_fuzzy_match_suggestion(sg.akahu_account, sg.target_accounts,
                                                         sg.mapping, TargetKey(sg.account_type)),
                    !.openai = get_openai_match_suggestion(sg.akahu_account, sg.target_accounts,
                                                           sg.mapping,
                                                           TargetKey(sg.account_type), advisor)]
    /\ UNCHANGED <<sav, pr, ft, yn, tk, world, cb, files, now, mp, scores, g_mapping_list, g_accounts, ledger, wh, sy, im>>

\* match_accounts, lines 482-501: the user answers the prompt and the loop goes to the
\* next Akahu account, or ends after the last.
AdvisePrompt(user_input) ==
    /\ sg.phase = "out"
    /\ "behaviour" \in DOMAIN sg
    /\ LET m2 == budget_match_one(sg.mapping, sg.akahu_account, sg.target_accounts,
                                  sg.account_type, user_input, now)
       IN sg' = IF sg.i < Len(LatestAkahuAccounts)
                THEN AdviseRecord(sg.account_type, sg.i + 1, m2)
                ELSE [sg EXCEPT !.phase = "done", !.mapping = m2]
    /\ UNCHANGED <<sav, pr, ft, yn, tk, world, cb, files, now, mp, scores, g_mapping_list, g_accounts, ledger, wh, sy, im>>

----------------------------------------------------------------------------
(* akahu_to_budget.py: the module-level state                              *)

\* load_existing_mapping, run at import: the mapping list of the file re-keyed by akahu_id
\* (a dict); without a file the mapping is the empty list.  Over a mapping saved as a
\* dict the comprehension iterates the keys, and entry['akahu_id'] on a key raises.
importer_load_existing_mapping(f) ==
    IF f.exists /\ JsonReadable(f)
    THEN [mapping |-> [kind |-> "dict", entries |-> f.mapping],
          accounts |-> [akahu |-> f.akahu_accounts, actual |-> f.actual_accounts,
                        ynab |-> f.ynab_accounts],
          raised |-> f.shape = "dict" /\ DOMAIN f.mapping # {}]
    ELSE [mapping |-> [kind |-> "list", entries |-> EmptyDict],
          accounts |-> [akahu |-> <<>>, actual |-> <<>>, ynab |-> <<>>],
          raised |-> f.exists]

\* akahu_to_budget.py, line 88: the module loads the store when it is imported; an
\* exception there ends the process before Flask serves anything.
ImporterStart ==
    /\ pr.importer = "off"
    /\ LET f == files[FileToBudget]
           loaded == importer_load_existing_mapping(f)
       IN /\ pr' = [pr EXCEPT !.who = "akahu_to_budget", !.found = Found(f),
                              !.raised = IF ~loaded.raised THEN "no"
                                         ELSE IF JsonReadable(f) THEN "TypeError"
                                         ELSE "JSONDecodeError",
                              !.continued = ~loaded.raised,
                              !.store_empty = DOMAIN loaded.mapping.entries = {}
                                                /\ loaded.accounts.akahu = <<>>,
                              !.importer = IF loaded.raised THEN "halted" ELSE "up"]
          /\ g_mapping_list' = loaded.mapping
          /\ g_accounts' = loaded.accounts
    /\ UNCHANGED <<sav, ft, yn, tk, world, cb, files, now, mp, scores, sg, ledger, wh, sy, im>>

\* A file the mapper leaves after mapping the Akahu accounts of `m` (akahu_id -> index
\* into LatestActualAccounts) at date 1.
MapperFile(m) ==
    actual_save_mapping(
        [a \in DOMAIN m |-> actual_new_entry(LatestActualAccounts[m[a]],
                                             ById(LatestAkahuAccounts, a), 1)],
        actual_merge_and_update_mapping(EmptyDict, LatestAkahuAccounts, LatestActualAccounts, 1).akahu_accounts,
        actual_merge_and_update_mapping(EmptyDict, LatestAkahuAccounts, LatestActualAccounts, 1).actual_accounts)

\* The store files the importer may find when it starts.
StartFiles ==
    {NoFile,
     MapperFile(EmptyDict),
     MapperFile([a \in {"a1"} |-> 1]),
     MapperFile([a \in {"a1", "a2"} |-> IF a = "a1" THEN 1 ELSE 3])}

----------------------------------------------------------------------------
(* Webhook requests and signature verification.  An RSA signature is the   *)
(* pair (signing key, signed bytes); any other byte string is "junk".      *)

AkahuKey == "akahu"

AttackerKey == "attacker"

\* AKAHU_PUBLIC_KEY of the environment is the public half of AkahuKey.
AKAHU_PUBLIC_KEY == [public_of |-> AkahuKey]

WebhookItem == [_id |-> "x1", amount |-> 5, date |-> 1, description |-> "Coffee"]

\* JSON objects Akahu may send: a recognized event, two unrecognized ones (another type,
\* no type) and the empty object.
Bodies ==
    {[type |-> "TRANSACTION_CREATED", item |-> WebhookItem],
     [type |-> "TRANSACTION_DELETED", item |-> WebhookItem],
     [item |-> WebhookItem],
     EmptyDict}

SignatureBytes ==
    {[junk |-> TRUE]} \cup {[signer |-> k, over |-> b] : k \in {AkahuKey, AttackerKey}, b \in Bodies}

\* The X-Akahu-Signature header: absent, a string that is no base64, or base64 of bytes.
SignatureHeaders ==
    {[kind |-> "missing"], [kind |-> "undecodable"]}
        \cup {[kind |-> "b64", raw |-> r] : r \in SignatureBytes}

Requests == {[signature |-> h, data |-> b] : h \in SignatureHeaders, b \in Bodies}

\* base64.b64decode(signature): None is a TypeError, bad padding a binascii.Error.
b64decode(signature) ==
    CASE signature.kind = "missing" -> [raised |-> "TypeError"]
      [] signature.kind = "undecodable" -> [raised |-> "binascii.Error"]
      [] OTHER -> [raised |-> "no", bytes |-> signature.raw]

\* A bug the verification could have: the signer is checked, the signed bytes are not.
rsa_verify_key_only(public_key, signature_bytes, data) ==
    /\ "signer" \in DOMAIN signature_bytes
    /\ signature_bytes.signer = public_key.public_of

\* public_key.verify(signature, data, PKCS1v15, SHA256)
rsa_verify(public_key, signature_bytes, data) ==
    /\ "signer" \in DOMAIN signature_bytes
    /\ signature_bytes.signer = public_key.public_of
    /\ signature_bytes.over = data

\* A bug verify_signature could have: InvalidSignature is logged and swallowed.
verify_signature_swallowing(public_key, signature, request_body) ==
    LET d == b64decode(signature)
    IN IF d.raised # "no" THEN d.raised ELSE "ok"

\* verify_signature: returns ("ok") or raises; the result names the exception.
verify_signature(public_key, signature, request_body) ==
    LET d == b64decode(signature)
    IN IF d.raised # "no" THEN d.raised
       ELSE IF rsa_verify(public_key, d.bytes, request_body) THEN "ok"
       ELSE "InvalidSignature"

\* The request was signed by Akahu over the body it carries.
GenuineRequest(req) ==
    /\ req.signature.kind = "b64"
    /\ req.signature.raw = [signer |-> AkahuKey, over |-> req.data]

----------------------------------------------------------------------------
(* akahu_to_budget.py: the Flask handlers.  app.run serves each request on  *)
(* its own thread, so a /receive-transaction request and a /sync request    *)
(* can be in progress together; the code takes no lock.  An exception that  *)
(* leaves a view function is answered 500 by Flask.                         *)

Response(status, body) == [status |-> status, body |-> body]

NoResponse == Response(0, "none")

InternalServerError(exc) == Response(500, exc)

IdleWebhook ==
    [pc |-> "idle", n |-> 0, req |-> [signature |-> [kind |-> "missing"], data |-> EmptyDict],
     path |-> <<>>, call_site |-> FALSE, importer_invoked |-> FALSE, response |-> NoResponse]

IdleSync ==
    [pc |-> "idle", n |-> 0, entries |-> {}, processed |-> {}, saved |-> FALSE,
     response |-> NoResponse, file_before |-> NoFile]

\* A bug the handler could have: every event that has a type is treated as recognized.
IsRecognizedEvent_any_type(data) ==
    /\ data # EmptyDict
    /\ "type" \in DOMAIN data

\* if data and "type" in data and data["type"] == "TRANSACTION_CREATED"
IsRecognizedEvent(data) ==
    /\ data # EmptyDict
    /\ "type" \in DOMAIN data
    /\ data["type"] = "TRANSACTION_CREATED"

\* receive_transaction, lines 504-523: verification, the event type test and, for a
\* recognized event, entering the Actual session.  `up`: the Actual server answers.
\* The result is the handler's next position and what it has answered, if anything.
receive_transaction_head(req, up) ==
    LET v == verify_signature(AKAHU_PUBLIC_KEY, req.signature, req.data)
    IN CASE v = "InvalidSignature" ->
                [pc |-> "done", path |-> <<"AWAITING_REQUEST", "REJECTED">>,
                 response |-> Response(400, "invalid signature")]
         [] v \notin {"ok", "InvalidSignature"} ->
                [pc |-> "done", path |-> <<"AWAITING_REQUEST", "ERROR">>,
                 response |-> InternalServerError(v)]
         [] v = "ok" /\ ~IsRecognizedEvent(req.data) ->
                [pc |-> "done", path |-> <<"AWAITING_REQUEST", "SIGNATURE_VERIFIED", "IGNORED">>,
                 response |-> Response(200, "ignored")]
         [] v = "ok" /\ IsRecognizedEvent(req.data) /\ ~up ->
                [pc |-> "done", path |-> <<"AWAITING_REQUEST", "SIGNATURE_VERIFIED", "ERROR">>,
                 response |-> InternalServerError("ActualError")]
         [] OTHER ->
                [pc |-> "in_actual", path |-> <<"AWAITING_REQUEST", "SIGNATURE_VERIFIED">>,
                 response |-> NoResponse]

\* POST /receive-transaction arrives and the handler runs up to the Actual session.
WhReceive(req, up) ==
    /\ wh.pc \in {"idle", "done"}
    /\ wh.n < MaxRequests
    /\ LET h == receive_transaction_head(req, up)
       IN wh' = [pc |-> h.pc, n |-> wh.n + 1, req |-> req, path |-> h.path,
                 call_site |-> FALSE, importer_invoked |-> FALSE, response |-> h.response]
    /\ UNCHANGED <<sav, pr, ft, yn, tk, world, cb, files, now, mp, scores, sg, g_mapping_list, g_accounts, ledger, sy, im>>

\* receive_transaction, line 524: the call
\*   load_transactions_into_actual(pd.DataFrame([transactions]), g_mapping_list, mapping, actual)
\* names a global `mapping` that the module never defines (and passes four arguments to a
\* function of three): evaluating the arguments raises NameError, the function is not
\* entered, the Actual session is left and Flask answers 500.
WhImport ==
    /\ wh.pc = "in_actual"
    /\ wh' = [wh EXCEPT !.pc = "done", !.call_site = TRUE, !.importer_invoked = FALSE,
                        !.path = Append(wh.path, "ERROR"),
                        !.response = InternalServerError("NameError")]
    /\ UNCHANGED <<sav, pr, ft, yn, tk, world, cb, files, now, mp, scores, sg, g_mapping_list, g_accounts, ledger, sy, im>>

\* GET /sync arrives: run_full_sync enters the Actual session and downloads the budget.
SyncStart(up) ==
    /\ sy.pc \in {"idle", "done"}
    /\ sy.n < MaxRequests
    /\ sy' = IF up
             THEN [IdleSync EXCEPT !.pc = "main_loop", !.n = sy.n + 1,
                                   !.entries = DOMAIN g_mapping_list.entries,
                                   !.file_before = files[FileToBudget]]
             ELSE [IdleSync EXCEPT !.pc = "done", !.n = sy.n + 1,
                                   !.entries = DOMAIN g_mapping_list.entries,
                                   !.file_before = files[FileToBudget],
                                   !.response = InternalServerError("ActualError")]
    /\ UNCHANGED <<sav, pr, ft, yn, tk, world, cb, files, now, mp, scores, sg, g_mapping_list, g_accounts, ledger, wh, im>>

\* save_updated_mapping: the file is opened for writing (and so emptied) before the
\* document is built; list(g_mapping_list.values()) raises AttributeError when the
\* mapping is the list that load_existing_mapping returns without a file.
save_updated_mapping(mapping, accounts) ==
    IF mapping.kind = "list"
    THEN [raised |-> "AttributeError", file |-> [exists |-> TRUE, shape |-> "empty"]]
    ELSE [raised |-> "no",
          file |-> [exists |-> TRUE, shape |-> "list", mapping |-> mapping.entries,
                    akahu_accounts |-> accounts.akahu, actual_accounts |-> accounts.actual,
                    ynab_accounts |-> accounts.ynab]]

\* A bug the full sync could have: the exception of the loop swallowed, so that the
\* run ends normally without having processed or saved anything.
main_loop_swallowing(mapping, accounts) ==
    IF DOMAIN mapping.entries # {}
    THEN [raised |-> "no", processed |-> {}, saved |-> FALSE, write |-> FALSE,
          file |-> NoFile]
    ELSE LET sv == save_updated_mapping(mapping, accounts)
         IN [raised |-> sv.raised, processed |-> {}, saved |-> sv.raised = "no",
             write |-> TRUE, file |-> sv.file]

\* main_loop: "for mapping_entry in g_mapping_list" walks the keys of the dict, so
\* mapping_entry is an akahu_id string and mapping_entry['akahu_id'] at line 419 raises
\* TypeError on the first entry: no entry is processed and nothing is saved.  With no
\* entry the loop is empty and the mapping is saved.
main_loop(mapping, accounts) ==
    IF DOMAIN mapping.entries # {}
    THEN [raised |-> "TypeError", processed |-> {}, saved |-> FALSE, write |-> FALSE,
          file |-> NoFile]
    ELSE LET sv == save_updated_mapping(mapping, accounts)
         IN [raised |-> sv.raised, processed |-> {}, saved |-> sv.raised = "no",
             write |-> TRUE, file |-> sv.file]

\* run_full_sync, line 493 to the response
SyncMainLoop ==
    /\ sy.pc = "main_loop"
    /\ LET r == main_loop(g_mapping_list, g_accounts)
       IN /\ sy' = [sy EXCEPT !.pc = "done", !.processed = r.processed, !.saved = r.saved,
                              !.response = IF r.raised = "no"
                                           THEN Response(200, "full sync complete")
                                           ELSE InternalServerError(r.raised)]
          /\ files' = IF r.write THEN [files EXCEPT ![FileToBudget] = r.file] ELSE files
    /\ UNCHANGED <<sav, pr, ft, yn, tk, world, cb, now, mp, scores, sg, g_mapping_list, g_accounts, ledger, wh, im>>

----------------------------------------------------------------------------
(* The reconciliation primitive and load_transactions_into_actual           *)

\* The source transactions of an Akahu account, oldest first; a fetch returns a window
\* of them, a webhook event carries one.  x1 and x2 have the same amount and date.
SourceHistory ==
    << [_id |-> "x1", amount |-> 5, date |-> 1, description |-> "Coffee"],
       [_id |-> "x2", amount |-> 5, date |-> 1, description |-> "Lunch"],
       [_id |-> "x3", amount |-> 5, date |-> 20, description |-> "Books"] >>

Windows ==
    {SubSeq(SourceHistory, i, j) : i \in 1..(Len(SourceHistory) + 1), j \in 0..Len(SourceHistory)}

\* actual.queries.create_transaction: a row is appended to the ledger.
create_transaction(rows, date, account, payee, amount, imported_id) ==
    Append(rows, [account |-> account, imported_id |-> imported_id, amount |-> amount,
                  date |-> date, payee |-> payee])

\* actual.queries.reconcile_transaction: the row of this account with the same
\* imported_id is the match; failing that, a row of the same amount and date that was
\* not matched earlier in the batch; failing that, the transaction is created.
\* The result holds the ledger, the matched or created row and whether anything changed.
reconcile_transaction(rows, date, account, payee, amount, imported_id, already_matched) ==
    LET by_id == {r \in 1..Len(rows) : rows[r].account = account /\ rows[r].imported_id = imported_id}
        fuzzy == {r \in 1..Len(rows) :
                    /\ rows[r].account = account
                    /\ rows[r].amount = amount
                    /\ rows[r].date = date
                    /\ r \notin already_matched}
    IN IF by_id # {} THEN [rows |-> rows, row |-> Min(by_id), changed |-> FALSE]
       ELSE IF fuzzy # {} THEN [rows |-> rows, row |-> Min(fuzzy), changed |-> FALSE]
       ELSE [rows |-> create_transaction(rows, date, account, payee, amount, imported_id),
             row |-> Len(rows) + 1, changed |-> TRUE]

\* A bug the importer could have: plain insertion instead of reconciliation.
import_one_insert(rows, txn, actual_account_id, already_matched) ==
    [rows |-> create_transaction(rows, txn.date, actual_account_id, txn.description,
                                 txn.amount * (0 - 1), txn._id),
     row |-> Len(rows) + 1, changed |-> TRUE]

\* load_transactions_into_actual, lines 199-219: the reconcile call for one transaction
import_one(rows, txn, actual_account_id, already_matched) ==
    reconcile_transaction(rows, txn.date, actual_account_id, txn.description,
                          txn.amount * (0 - 1), txn._id, already_matched)

\* load_transactions_into_actual, the loop: `failing` holds the positions of the batch
\* whose reconcile call raises (caught and logged, the loop goes on).
RECURSIVE import_loop(_, _, _, _, _, _)
import_loop(rows, transactions, k, actual_account_id, failing, imported_transactions) ==
    IF k > Len(transactions) THEN rows
    ELSE IF k \in failing
    THEN import_loop(rows, transactions, k + 1, actual_account_id, failing, imported_transactions)
    ELSE LET r == import_one(rows, transactions[k], actual_account_id, imported_transactions)
         IN import_loop(r.rows, transactions, k + 1, actual_account_id, failing,
                        IF r.changed THEN imported_transactions \cup {r.row}
                        ELSE imported_transactions)

\* load_transactions_into_actual(transactions, mapping_entry, actual): nothing happens for
\* an empty batch; otherwise every transaction is reconciled and the entry's checkpoint
\* is set to the current time.
load_transactions_into_actual(rows, transactions, mapping_entry, failing, date) ==
    IF transactions = <<>>
    THEN [rows |-> rows, mapping_entry |-> mapping_entry]
    ELSE [rows |-> import_loop(rows, transactions, 1, mapping_entry.actual_account_id,
                               failing, {}),
          mapping_entry |-> Put(mapping_entry, "actual_synced_datetime", date)]

\* n counts the invocations; account, batch, failing and before describe the last one
\* (before: the ledger it found); reconciled holds the (account, transaction id) pairs
\* whose reconcile call has returned; redelivery says that every transaction the last
\* invocation reconciled had been reconciled into that account before.
IdleImport ==
    [n |-> 0, account |-> None, batch |-> <<>>, failing |-> {}, before |-> <<>>,
     reconciled |-> {}, redelivery |-> FALSE]

\* A row typed in by hand in Actual before any import: no imported_id, and the amount
\* and date of x1 as the importer writes it.
ManualRow == [account |-> "t1", imported_id |-> None, amount |-> 0 - 5, date |-> 1, payee |-> "Cafe"]

\* One invocation of load_transactions_into_actual for the entry of Akahu account `a`,
\* one clock tick after the previous one.
Deliver(a, batch, failing) ==
    /\ im.n < MaxDeliveries
    /\ now' = now + 1
    /\ LET r == load_transactions_into_actual(ledger, batch, g_mapping_list.entries[a],
                                              failing, now')
           account == g_mapping_list.entries[a].actual_account_id
           returned == {<<account, batch[k]._id>> : k \in (1..Len(batch)) \ failing}
       IN /\ ledger' = r.rows
          /\ g_mapping_list' = [g_mapping_list EXCEPT !.entries[a] = r.mapping_entry]
          /\ im' = [n |-> im.n + 1, account |-> account,
                    batch |-> batch, failing |-> failing, before |-> ledger,
                    reconciled |-> im.reconciled \cup returned,
                    redelivery |-> returned # {} /\ returned \subseteq im.reconciled]
    /\ UNCHANGED <<sav, pr, ft, yn, tk, world, cb, files, mp, scores, sg, g_accounts, wh, sy>>

----------------------------------------------------------------------------
(* load_transactions_into_ynab                                              *)

\* The YNAB budget and account an entry may name.
YnabTargets == {[ynab_budget_id |-> "b1", ynab_account_id |-> LatestYnabAccounts[1].id]}

\* akahu_txn.to_dict(orient='records'): one record per row of the frame, with the
\* columns of the frame, which are the fields of the Akahu transaction as fetched.
to_dict_records(akahu_txn) == [k \in 1..Len(akahu_txn) |-> akahu_txn[k]]

\* load_transactions_into_ynab(akahu_txn, ynab_budget_id, ynab_account_id): the POST
\* it sends.  The account id is not part of the request.
load_transactions_into_ynab(akahu_txn, ynab_budget_id, ynab_account_id) ==
    [uri |-> <<"budgets", ynab_budget_id, "transactions">>,
     transactions |-> to_dict_records(akahu_txn)]

\* One invocation of load_transactions_into_ynab for a non-empty fetch of an entry that
\* names a YNAB budget and account (main_loop, lines 431 and 442-445).  yn holds the
\* last request sent to YNAB and the frame it was made from.
PostYnab(a, batch, target) ==
    /\ batch # <<>>
    /\ yn' = << [akahu_id |-> a, source |-> batch,
                 request |-> load_transactions_into_ynab(batch, target.ynab_budget_id,
                                                         target.ynab_account_id)] >>
    /\ UNCHANGED <<sav, pr, ft, tk, world, cb, files, now, mp, scores, sg, g_mapping_list, g_accounts, ledger, wh, sy, im>>

----------------------------------------------------------------------------
(* Balance reconciliation of tracking accounts.  The rows of this ledger    *)
(* hold amounts in minor units: Decimal(d) / 100 dollars is d minor units.  *)

\* round(balance * 100) of a balance Akahu gives to the cent: `balance` is held in
\* minor units, and rounding a two-decimal amount times 100 gives that many units.
round_times_100(balance) == balance

RECURSIVE SumAmounts(_, _, _)
SumAmounts(rows, account, k) ==
    IF k = 0 THEN 0
    ELSE SumAmounts(rows, account, k - 1)
         + (IF rows[k].account = account THEN rows[k].amount ELSE 0)

\* The Actual budget as a call sees it: the rows of the ledger, the ids of the accounts
\* the budget holds, and whether the session can be used.
ActualBudget(rows, accounts, up) == [rows |-> rows, accounts |-> accounts, up |-> up]

\* get_actual_balance(actual, actual_account_id): account.balance_current, the account's
\* balance in minor units; None when get_account finds no account and when the session
\* raises, which the function catches.
get_actual_balance(actual, actual_account_id) ==
    IF ~actual.up THEN NoneInt
    ELSE IF actual_account_id \notin actual.accounts THEN NoneInt
    ELSE Some(SumAmounts(actual.rows, actual_account_id, Len(actual.rows)))

\* The fields handle_tracking_account_actual reads before its try block.
TrackingEntryFields == {"akahu_id", "actual_account_id", "akahu_name", "actual_account_name"}

\* A bug the reconciliation could have: a missing balance read as zero and the
\* adjustment created without comparing the balances.
handle_tracking_account_actual_unconditional(actual, mapping_entry, date) ==
    LET akahu_balance == IF "akahu_balance" \in DOMAIN mapping_entry
                         THEN round_times_100(mapping_entry.akahu_balance) ELSE 0
        found == get_actual_balance(actual, mapping_entry.actual_account_id)
        actual_balance == IF found = NoneInt THEN 0 ELSE found[1]
    IN [rows |-> create_transaction(actual.rows, date, mapping_entry.actual_account_id,
                                    "Balance Adjustment", akahu_balance - actual_balance,
                                    <<"adjustment", date>>),
        raised |-> "no", returned |-> TRUE]

\* A bug the reconciliation could have: a target balance of None read as zero.
handle_tracking_account_actual_none_as_zero(actual, mapping_entry, date) ==
    IF ~(TrackingEntryFields \subseteq DOMAIN mapping_entry)
    THEN [rows |-> actual.rows, raised |-> "KeyError", returned |-> FALSE]
    ELSE IF "akahu_balance" \notin DOMAIN mapping_entry
    THEN [rows |-> actual.rows, raised |-> "KeyError", returned |-> TRUE]
    ELSE LET akahu_balance == round_times_100(mapping_entry.akahu_balance)
             found == get_actual_balance(actual, mapping_entry.actual_account_id)
             actual_balance == IF found = NoneInt THEN 0 ELSE found[1]
         IN IF akahu_balance # actual_balance
            THEN [rows |-> create_transaction(actual.rows, date, mapping_entry.actual_account_id,
                                              "Balance Adjustment",
                                              akahu_balance - actual_balance,
                                              <<"adjustment", date>>),
                  raised |-> "no", returned |-> TRUE]
            ELSE [rows |-> actual.rows, raised |-> "no", returned |-> TRUE]

\* handle_tracking_account_actual(mapping_entry, actual).  The four reads before the try
\* block raise KeyError to the caller for an entry without one of the fields.  Inside
\* the try block mapping_entry['akahu_balance'] raises KeyError for an entry without the
\* field, and with a balance of None the test akahu_balance != actual_balance is true
\* and akahu_balance - actual_balance raises TypeError; the except clause logs either
\* and the function returns.  `raised` is the exception, `returned` whether the function
\* returned to its caller.
handle_tracking_account_actual(actual, mapping_entry, date) ==
    IF ~(TrackingEntryFields \subseteq DOMAIN mapping_entry)
    THEN [rows |-> actual.rows, raised |-> "KeyError", returned |-> FALSE]
    ELSE IF "akahu_balance" \notin DOMAIN mapping_entry
    THEN [rows |-> actual.rows, raised |-> "KeyError", returned |-> TRUE]
    ELSE LET akahu_balance == round_times_100(mapping_entry.akahu_balance)
             actual_balance == get_actual_balance(actual, mapping_entry.actual_account_id)
         IN IF actual_balance = NoneInt
            THEN [rows |-> actual.rows, raised |-> "TypeError", returned |-> TRUE]
            ELSE IF akahu_balance # actual_balance[1]
            THEN [rows |-> create_transaction(actual.rows, date, mapping_entry.actual_account_id,
                                              "Balance Adjustment",
                                              akahu_balance - actual_balance[1],
                                              <<"adjustment", date>>),
                  raised |-> "no", returned |-> TRUE]
            ELSE [rows |-> actual.rows, raised |-> "no", returned |-> TRUE]

\* The balances Akahu may report for the tracking account, in minor units.
SourceBalances == {0, 1000, 1250}

\* A row of the tracking account that was not written by the importer.
OpeningRow(amount) ==
    [account |-> "t3", imported_id |-> None, amount |-> amount, date |-> 0, payee |-> "Opening"]

\* A bug the dispatch could have: "else" in place of "elif account_type == 'On Budget'",
\* so that every entry that is not of type Tracking is fetched and imported.
main_loop_branch_else(mapping_entry) ==
    LET account_type == IF "account_type" \in DOMAIN mapping_entry
                        THEN mapping_entry.account_type ELSE "On Budget"
    IN IF account_type = "Tracking" THEN "Tracking" ELSE "On Budget"

\* main_loop, lines 421-451: account_type = mapping_entry.get('account_type', 'On Budget')
\* and the branch the if / elif / else takes for it.
main_loop_branch(mapping_entry) ==
    LET account_type == IF "account_type" \in DOMAIN mapping_entry
                        THEN mapping_entry.account_type ELSE "On Budget"
    IN IF account_type = "Tracking" THEN "Tracking"
       ELSE IF account_type = "On Budget" THEN "On Budget"
       ELSE "Unknown"

\* main_loop, lines 423-425: the entry of Akahu account `a` is of type Tracking and
\* handle_tracking_account_actual runs for it.  `up`: the Actual session can be used.
TrackingRun(a, up) ==
    /\ tk.n < MaxDeliveries
    /\ ft.pc = "none"
    /\ main_loop_branch(g_mapping_list.entries[a]) = "Tracking"
    /\ LET r == handle_tracking_account_actual(ActualBudget(ledger, Ids(world.actual), up),
                                               g_mapping_list.entries[a], now)
       IN /\ ledger' = r.rows
          /\ tk' = [tk EXCEPT !.n = tk.n + 1, !.last = "run", !.akahu_id = a,
                              !.before = ledger, !.raised = r.raised,
                              !.returned = r.returned, !.up = up,
                              !.back_to_back = tk.last = "run" /\ tk.akahu_id = a]
    /\ UNCHANGED <<sav, pr, ft, yn, world, cb, files, now, mp, scores, sg, g_mapping_list, g_accounts, wh, sy, im>>

\* The balance of the account at Akahu changes.
BalanceDrift(balance) ==
    /\ now < MaxClock
    /\ balance # tk.source_balance
    /\ now' = now + 1
    /\ tk' = [tk EXCEPT !.last = "drift", !.source_balance = balance, !.since = Len(ledger)]
    /\ UNCHANGED <<sav, pr, ft, yn, world, cb, files, mp, scores, sg, g_mapping_list, g_accounts, ledger, wh, sy, im>>

\* The user enters a row in the tracking account by hand.
LedgerActivity(amount) ==
    /\ now < MaxClock
    /\ now' = now + 1
    /\ ledger' = Append(ledger, OpeningRow(amount))
    /\ tk' = [tk EXCEPT !.last = "activity", !.since = Len(ledger')]
    /\ UNCHANGED <<sav, pr, ft, yn, world, cb, files, mp, scores, sg, g_mapping_list, g_accounts, wh, sy, im>>

----------------------------------------------------------------------------
(* Idle values of the state                                                *)

NoFiles == [f \in FileNames |-> NoFile]

NoMapping == [kind |-> "list", entries |-> EmptyDict]

NoAccounts == [akahu |-> <<>>, actual |-> <<>>, ynab |-> <<>>]

----------------------------------------------------------------------------
(* combine_accounts applied to drawn arguments                              *)

DirectoryOrder == <<"d1", "d2", "d3">>

DirectoryIds == {DirectoryOrder[i] : i \in 1..Len(DirectoryOrder)}

\* The lists an API may return: any accounts of the directory, each once, in any order.
LatestLists ==
    LET seqs == UNION {[1..n -> DirectoryIds] : n \in 0..Len(DirectoryOrder)}
        distinct == {q \in seqs : \A i, j \in 1..Len(q) : i # j => q[i] # q[j]}
    IN {[i \in 1..Len(q) |-> [id |-> q[i], name |-> q[i]]] : q \in distinct}

\* The lists a saved file may hold: accounts of the directory, each stamped by the run
\* that first saw it.
ExistingLists ==
    UNION {
      { LET ids == SelectSeq(DirectoryOrder, LAMBDA d : d \in D)
        IN [i \in 1..Len(ids) |->
              [id |-> ids[i], name |-> ids[i], date_first_loaded |-> f[ids[i]]]] :
          f \in [D -> 0..MaxClock] } : D \in SUBSET DirectoryIds }

IdleCombine ==
    [phase |-> "none", latest |-> <<>>, existing |-> <<>>, combined |-> <<>>, deleted |-> {}]

IdleSave == [pc |-> "none", who |-> "none", file |-> None, prev |-> NoFile, doc |-> NoFile]

\* n counts the runs of handle_tracking_account_actual; last is the kind of the last
\* step ("run", "drift": the Akahu balance changed, "activity": a row was added by
\* hand); akahu_id, before and raised describe the last run; back_to_back says that the
\* step before the last run was a run for the same entry; since is the length of the
\* ledger at the last drift or activity; source_balance is the balance Akahu reports
\* for the account, in minor units; returned says that the last run returned to
\* main_loop, up that the Actual session could be used during it.
IdleTracking ==
    [n |-> 0, last |-> "none", akahu_id |-> None, before |-> <<>>, raised |-> "no",
     returned |-> TRUE, up |-> TRUE, back_to_back |-> FALSE, since |-> 0,
     source_balance |-> 0]

\* One call of combine_accounts on the drawn lists, at a time later than every stamp.
Combine ==
    /\ cb.phase = "in"
    /\ now' = now + 1
    /\ LET r == combine_accounts(cb.latest, cb.existing, now')
       IN cb' = [cb EXCEPT !.phase = "out", !.combined = r.combined, !.deleted = r.deleted]
    /\ UNCHANGED <<sav, pr, ft, yn, tk, world, files, mp, scores, sg, g_mapping_list, g_accounts, ledger, wh, sy, im>>

----------------------------------------------------------------------------
(* The paginated fetch: get_all_akahu of akahu_to_budget.py and of          *)
(* akahu_to_actual.py, and AkahuAPI.fetch_transactions_paginated.  One      *)
(* action is one pass of the loop, that is one request.  Dates are days.    *)

FetchImpls == {"akahu_to_budget", "akahu_to_actual", "akahu_api"}

\* "2024-01-01T00:00:00Z", the day the model counts from
StartOfTime == 0

\* datetime.timedelta(days=7)
LookbackDays == 7

\* How a page ends: with no "cursor" object, with one that has no "next", with
\* "next": null, or with the cursor of the following page.
LastPageEndings == {"absent", "no_next", "null"}

PageSizes == {0, 1, 2}

\* Page i of a provider: its items, named by page and position, and its cursor (the
\* cursor of page i + 1 is the number i + 1; an absent or null cursor is NoneInt).
Page(i, n, ending) ==
    [items |-> [j \in 1..n |-> <<i, j>>], cursor |-> ending,
     next |-> IF ending = "next" THEN Some(i + 1) ELSE NoneInt]

\* The providers: k pages, every one but the last naming the next.
Providers ==
    UNION {{[i \in 1..k |-> Page(i, sizes[i], IF i < k THEN "next" ELSE ending)] :
                sizes \in [1..k -> PageSizes], ending \in LastPageEndings} :
           k \in 1..MaxPages}

\* query_params['start'] as each script sets it before the loop; start_date as the
\* caller of fetch_transactions_paginated passes it.
start_bound(impl, last_reconciled_at) ==
    CASE impl = "akahu_to_budget" ->
            IF last_reconciled_at # NoneInt THEN last_reconciled_at ELSE Some(StartOfTime)
      [] impl = "akahu_to_actual" ->
            Some((IF last_reconciled_at = NoneInt THEN StartOfTime ELSE last_reconciled_at[1])
                    - LookbackDays)
      [] impl = "akahu_api" -> last_reconciled_at

\* A bug the loop could have: the cursor of the page is never followed.
next_cursor_after_one_page(impl, page) == NoneInt

\* The cursor the loop goes on with after a page, NoneInt (None) to stop.
\* akahu_to_budget.py 135-138, akahu_to_actual.py 128, akahu_api.py 62-64.
next_cursor_after(impl, page) ==
    IF impl = "akahu_to_budget" /\ Len(page.items) = 0 THEN NoneInt
    ELSE IF page.cursor \in {"absent", "no_next"} THEN NoneInt
    ELSE page.next

\* res is None until a page has been read, which NoResult renders.
NoResult == [none |-> TRUE, items |-> <<>>]

Result(items) == [none |-> FALSE, items |-> items]

IdleFetch ==
    [pc |-> "none", impl |-> "none", akahu_id |-> None, provider |-> <<>>, fail_at |-> 0,
     silent_at |-> 0,
     last_reconciled_at |-> NoneInt, start |-> NoneInt, next_cursor |-> NoneInt,
     requests |-> <<>>, res |-> NoResult]

\* The timeout the scripts pass to requests.get: none, so a request waits for as long
\* as the server stays silent.
RequestTimeout == NoneInt

\* requests.get for request k of a fetch whose request fail_at is answered with an error
\* and whose request silent_at is never answered: with a timeout the silence ends in
\* requests.exceptions.Timeout, a RequestException; without one the call does not return.
requests_get(k, fail_at, silent_at, timeout) ==
    IF k = silent_at
    THEN IF timeout = NoneInt THEN "blocked" ELSE "RequestException"
    ELSE IF k = fail_at THEN "RequestException" ELSE "response"

\* The function is entered: the start bound is computed, no request is made yet.
FetchBegin ==
    /\ ft.pc = "called"
    /\ ft' = [ft EXCEPT !.pc = "loop", !.start = start_bound(ft.impl, ft.last_reconciled_at)]
    /\ UNCHANGED <<sav, pr, yn, tk, world, cb, files, now, mp, scores, sg, g_mapping_list, g_accounts, ledger, wh, sy, im>>

\* One pass of the loop: the request (the first one is sent without a cursor), then
\* either the failure handling of the script or the page is appended and the cursor read.
FetchPage ==
    /\ ft.pc = "loop"
    /\ LET first == Len(ft.requests) = 0
           cursor == IF first THEN NoneInt ELSE ft.next_cursor
           request == [start |-> ft.start, cursor |-> cursor]
           requests == Append(ft.requests, request)
           page == ft.provider[IF first THEN 1 ELSE cursor[1]]
           res == Result(ft.res.items \o page.items)
           next == next_cursor_after(ft.impl, page)
           outcome == requests_get(Len(requests), ft.fail_at, ft.silent_at, RequestTimeout)
       IN IF outcome = "blocked"
          THEN ft' = [ft EXCEPT !.requests = requests, !.pc = "blocked"]
          ELSE IF outcome = "RequestException"
          THEN ft' = [ft EXCEPT !.requests = requests,
                                !.pc = IF ft.impl = "akahu_api" THEN "raised" ELSE "returned",
                                !.res = IF ft.impl = "akahu_to_budget" THEN ft.res ELSE NoResult]
          ELSE ft' = [ft EXCEPT !.requests = requests, !.res = res, !.next_cursor = next,
                                !.pc = IF next = NoneInt THEN "returned" ELSE "loop"]
    /\ UNCHANGED <<sav, pr, yn, tk, world, cb, files, now, mp, scores, sg, g_mapping_list, g_accounts, ledger, wh, sy, im>>

----------------------------------------------------------------------------
(* main_loop, the On Budget branch (lines 427-437), run after run: the      *)
(* checkpoint of the entry is read, get_all_akahu fetches from it, and a    *)
(* non-empty result goes to load_transactions_into_actual.                  *)

\* The transactions Akahu holds for an account, all of them dated before the first run.
RunHistory == [k \in 1..2 |-> [SourceHistory[k] EXCEPT !.date = StartOfTime]]

\* The pages Akahu serves for a start bound: the transactions dated at or after it, one
\* to a page, every page but the last naming the next.
RECURSIVE Since(_, _, _)
Since(history, start, k) ==
    IF k > Len(history) THEN <<>>
    ELSE (IF history[k].date >= start THEN <<history[k]>> ELSE <<>>) \o Since(history, start, k + 1)

PagesSince(history, start) ==
    LET txns == Since(history, start, 1)
    IN IF txns = <<>> THEN << [items |-> <<>>, cursor |-> "absent", next |-> NoneInt] >>
       ELSE [i \in 1..Len(txns) |->
                [items |-> <<txns[i]>>,
                 cursor |-> IF i < Len(txns) THEN "next" ELSE "null",
                 next |-> IF i < Len(txns) THEN Some(i + 1) ELSE NoneInt]]

\* main_loop, lines 428-429: the checkpoint of the entry, or the start of time, is
\* passed to get_all_akahu.  fail_at is the request of this fetch that fails and
\* silent_at the one that is never answered (0: none).
RunStart(a, fail_at, silent_at) ==
    /\ ft.pc = "none"
    /\ main_loop_branch(g_mapping_list.entries[a]) = "On Budget"
    /\ now < MaxClock
    /\ now' = now + 1
    /\ LET entry == g_mapping_list.entries[a]
           last_reconciled_at == IF "actual_synced_datetime" \in DOMAIN entry
                                 THEN Some(entry.actual_synced_datetime)
                                 ELSE Some(StartOfTime)
           provider == PagesSince(RunHistory, start_bound("akahu_to_budget", last_reconciled_at)[1])
       IN /\ fail_at <= Len(provider)
          /\ silent_at <= Len(provider)
          /\ ft' = [IdleFetch EXCEPT !.pc = "called", !.impl = "akahu_to_budget",
                                     !.akahu_id = a, !.provider = provider,
                                     !.fail_at = fail_at, !.silent_at = silent_at,
                                     !.last_reconciled_at = last_reconciled_at]
    /\ UNCHANGED <<sav, pr, yn, tk, world, cb, files, mp, scores, sg, g_mapping_list, g_accounts, ledger, wh, sy, im>>

\* main_loop, lines 431-437: a result that is not None and not empty is loaded into
\* Actual, which sets the checkpoint; any other result is passed over.
RunImport ==
    /\ ft.pc = "returned"
    /\ ft.akahu_id # None
    /\ LET a == ft.akahu_id
           r == load_transactions_into_actual(ledger, ft.res.items, g_mapping_list.entries[a],
                                              {}, now)
       IN /\ ledger' = r.rows
          /\ g_mapping_list' = [g_mapping_list EXCEPT !.entries[a] = r.mapping_entry]
    /\ ft' = [ft EXCEPT !.pc = "none"]
    /\ UNCHANGED <<sav, pr, yn, tk, world, cb, files, now, mp, scores, sg, g_accounts, wh, sy, im>>

\* main_loop, lines 450-451: an entry whose account type is neither Tracking nor
\* On Budget is logged as an error and the loop goes on; the entry is counted as one
\* the loop has been through.
UnknownType(a) ==
    /\ ft.pc = "none"
    /\ main_loop_branch(g_mapping_list.entries[a]) = "Unknown"
    /\ now < MaxClock
    /\ now' = now + 1
    /\ sy' = [sy EXCEPT !.processed = sy.processed \cup {a}]
    /\ UNCHANGED <<sav, pr, ft, yn, tk, world, cb, files, mp, scores, sg, g_mapping_list, g_accounts, ledger, wh, im>>

----------------------------------------------------------------------------
(* A save, system call by system call.  Both save functions are            *)
(*     with open(mapping_file, "w") as f: json.dump(data, f, indent=4)     *)
(* open(..., "w") creates or empties the file, json.dump writes the        *)
(* document piece by piece, leaving the with block closes the file.  The   *)
(* process may stop between any two of these.                              *)

Truncated == [exists |-> TRUE, shape |-> "empty"]

PartlyWritten == [exists |-> TRUE, shape |-> "partial"]

\* The mapping after a sync run at `date`: every entry's checkpoint is set.
Checkpointed(mapping, date) ==
    [mapping EXCEPT !.entries =
        [a \in DOMAIN mapping.entries |->
            Put(mapping.entries[a], "actual_synced_datetime", date)]]

\* The saves the programs perform: save_updated_mapping of the sync process over the
\* file it loaded, and save_mapping of the mapper over a file of an earlier run (or none).
SaveJobs ==
    {[who |-> "save_updated_mapping", file |-> FileToBudget, prev |-> f,
      doc |-> save_updated_mapping(Checkpointed(importer_load_existing_mapping(f).mapping, 1),
                                   importer_load_existing_mapping(f).accounts).file] :
        f \in StartFiles \ {NoFile}}
    \cup
    {[who |-> "save_mapping", file |-> FileBudget, prev |-> p,
      doc |-> budget_save_mapping(f.mapping, f.akahu_accounts, f.actual_accounts, <<>>)] :
        p \in {NoFile} \cup {budget_save_mapping(g.mapping, g.akahu_accounts, g.actual_accounts, <<>>) :
                                g \in StartFiles \ {NoFile}},
        f \in StartFiles \ {NoFile}}

\* open(mapping_file, "w")
SaveOpen ==
    /\ sav.pc = "start"
    /\ files' = [files EXCEPT ![sav.file] = Truncated]
    /\ sav' = [sav EXCEPT !.pc = "opened"]
    /\ UNCHANGED <<pr, ft, yn, tk, world, cb, now, mp, scores, sg, g_mapping_list, g_accounts, ledger, wh, sy, im>>

\* json.dump(data, f, indent=4): the first pieces of the document reach the file
SaveDump ==
    /\ sav.pc = "opened"
    /\ files' = [files EXCEPT ![sav.file] = PartlyWritten]
    /\ sav' = [sav EXCEPT !.pc = "dumping"]
    /\ UNCHANGED <<pr, ft, yn, tk, world, cb, now, mp, scores, sg, g_mapping_list, g_accounts, ledger, wh, sy, im>>

\* the end of the with block: the rest is written and the file is closed
SaveClose ==
    /\ sav.pc = "dumping"
    /\ files' = [files EXCEPT ![sav.file] = sav.doc]
    /\ sav' = [sav EXCEPT !.pc = "closed"]
    /\ UNCHANGED <<pr, ft, yn, tk, world, cb, now, mp, scores, sg, g_mapping_list, g_accounts, ledger, wh, sy, im>>

\* The process stops (killed, power loss) wherever the save is.
Crash ==
    /\ sav.pc \in {"start", "opened", "dumping", "closed"}
    /\ sav' = [sav EXCEPT !.pc = "stopped"]
    /\ UNCHANGED <<pr, ft, yn, tk, world, cb, files, now, mp, scores, sg, g_mapping_list, g_accounts, ledger, wh, sy, im>>

----------------------------------------------------------------------------
(* Specifications                                                          *)

\* The mapper scripts, run one after another from an empty directory.
InitMapper ==
    /\ world = FullWorld
    /\ cb = IdleCombine
    /\ sav = IdleSave
    /\ pr = IdleBoot
    /\ ft = IdleFetch
    /\ yn = <<>>
    /\ tk = IdleTracking
    /\ files = NoFiles
    /\ now = 0
    /\ mp = IdleMapper
    /\ scores = DefaultScores
    /\ sg = IdleSuggest
    /\ g_mapping_list = NoMapping
    /\ g_accounts = NoAccounts
    /\ ledger = <<>>
    /\ wh = IdleWebhook
    /\ sy = IdleSync
    /\ im = IdleImport

NextMapper ==
    \/ \E confirmation \in BOOLEAN : BudgetMapperStart(confirmation)
    \/ \E user_input \in Strings : BudgetMatchStep(user_input)
    \/ ActualMapperStart
    \/ \E user_choice \in Strings : ActualMatchStep(user_choice)

SpecMapper == InitMapper /\ [][NextMapper]_vars

DirectoryChanges == {"akahu_gone", "actual_gone", "actual_closed", "ynab_gone"}

AccountIds == Ids(FullWorld.akahu) \cup Ids(FullWorld.actual) \cup Ids(FullWorld.ynab)

\* The mapper scripts, with the directories changing between runs.
NextRefresh ==
    \/ \E confirmation \in BOOLEAN : BudgetMapperStart(confirmation)
    \/ \E user_input \in Strings : BudgetMatchStep(user_input)
    \/ ActualMapperStart
    \/ \E user_choice \in Strings : ActualMatchStep(user_choice)
    \/ \E change \in DirectoryChanges, id \in AccountIds : DirectoryChange(change, id)

SpecRefresh == InitMapper /\ [][NextRefresh]_vars

\* The suggestion functions on drawn arguments.
InitSuggest ==
    /\ world = FullWorld
    /\ cb = IdleCombine
    /\ sav = IdleSave
    /\ pr = IdleBoot
    /\ ft = IdleFetch
    /\ yn = <<>>
    /\ tk = IdleTracking
    /\ files = NoFiles
    /\ now = 0
    /\ mp = IdleMapper
    /\ \E i \in 1..Len(LatestAkahuAccounts), account_type \in {"actual", "ynab"} :
         \E n \in 0..Len(CandidatesOf(account_type)), m \in DrawnMappings(account_type) :
            LET targets == WithSeq(SubSeq(CandidatesOf(account_type), 1, n))
                names == {targets[k].name : k \in 1..Len(targets)}
            IN /\ scores \in ScoreTables(LatestAkahuAccounts[i].name, names)
               /\ sg = [phase |-> "in", akahu_account |-> LatestAkahuAccounts[i],
                        account_type |-> account_type, target_accounts |-> targets,
                        mapping |-> m, fuzzy |-> NoneInt, openai |-> NoneInt,
                        advisor |-> IdleSuggest.advisor]
    /\ g_mapping_list = NoMapping
    /\ g_accounts = NoAccounts
    /\ ledger = <<>>
    /\ wh = IdleWebhook
    /\ sy = IdleSync
    /\ im = IdleImport

NextSuggest == \E advisor \in AdvisorOutcomes : Suggest(advisor)

SpecSuggest == InitSuggest /\ [][NextSuggest]_vars

\* One pass of match_accounts over the Akahu accounts, none of them mapped yet.
InitAdvise ==
    /\ world = FullWorld
    /\ cb = IdleCombine
    /\ sav = IdleSave
    /\ pr = IdleBoot
    /\ ft = IdleFetch
    /\ yn = <<>>
    /\ tk = IdleTracking
    /\ files = NoFiles
    /\ now = 0
    /\ mp = IdleMapper
    /\ \E score \in ScoreVals : scores = [p \in AkahuNames \X TargetNames |-> score]
    /\ \E account_type \in {"actual", "ynab"} : sg = AdviseRecord(account_type, 1, EmptyDict)
    /\ g_mapping_list = NoMapping
    /\ g_accounts = NoAccounts
    /\ ledger = <<>>
    /\ wh = IdleWebhook
    /\ sy = IdleSync
    /\ im = IdleImport

\* What the advisor writes and what the user types at the prompt: nothing, or one
\* character.
AdviseInputs == {str \in Strings : Len(str) <= 1}

NextAdvise ==
    \/ \E behaviour \in AdvisorBehaviours, content \in AdviseInputs : AdviseCall(behaviour, content)
    \/ AdviseReturn
    \/ \E user_input \in AdviseInputs : AdvisePrompt(user_input)

\* The client and the mapper go on when they can, and the user answers every prompt.
SpecAdvise ==
    /\ InitAdvise
    /\ [][NextAdvise]_vars
    /\ WF_vars(NextAdvise)

\* The Flask process: started on one of the store files, then serving requests.
InitSync ==
    /\ world = FullWorld
    /\ cb = IdleCombine
    /\ sav = IdleSave
    /\ pr = IdleBoot
    /\ ft = IdleFetch
    /\ yn = <<>>
    /\ tk = IdleTracking
    /\ \E f \in StartFiles :
         /\ files = [NoFiles EXCEPT ![FileToBudget] = f]
         /\ g_mapping_list = importer_load_existing_mapping(f).mapping
         /\ g_accounts = importer_load_existing_mapping(f).accounts
    /\ now = 0
    /\ mp = IdleMapper
    /\ scores = DefaultScores
    /\ sg = IdleSuggest
    /\ ledger = <<>>
    /\ wh = IdleWebhook
    /\ sy = IdleSync
    /\ im = IdleImport

NextSync ==
    \/ \E req \in Requests, up \in BOOLEAN : WhReceive(req, up)
    \/ WhImport
    \/ \E up \in BOOLEAN : SyncStart(up)
    \/ SyncMainLoop

SpecSync == InitSync /\ [][NextSync]_vars

\* combine_accounts on drawn lists.
InitCombine ==
    /\ world = FullWorld
    /\ sav = IdleSave
    /\ pr = IdleBoot
    /\ ft = IdleFetch
    /\ yn = <<>>
    /\ tk = IdleTracking
    /\ \E latest \in LatestLists, existing \in ExistingLists :
          cb = [IdleCombine EXCEPT !.phase = "in", !.latest = latest, !.existing = existing]
    /\ files = NoFiles
    /\ now = MaxClock
    /\ mp = IdleMapper
    /\ scores = DefaultScores
    /\ sg = IdleSuggest
    /\ g_mapping_list = NoMapping
    /\ g_accounts = NoAccounts
    /\ ledger = <<>>
    /\ wh = IdleWebhook
    /\ sy = IdleSync
    /\ im = IdleImport

NextCombine == Combine

SpecCombine == InitCombine /\ [][NextCombine]_vars

\* load_transactions_into_actual invoked for the entries of a two-account store.
ImportStore == MapperFile([a \in {"a1", "a2"} |-> IF a = "a1" THEN 1 ELSE 2])

InitImport ==
    /\ world = FullWorld
    /\ cb = IdleCombine
    /\ sav = IdleSave
    /\ pr = IdleBoot
    /\ ft = IdleFetch
    /\ yn = <<>>
    /\ tk = IdleTracking
    /\ files = [NoFiles EXCEPT ![FileToBudget] = ImportStore]
    /\ g_mapping_list = importer_load_existing_mapping(ImportStore).mapping
    /\ g_accounts = importer_load_existing_mapping(ImportStore).accounts
    /\ ledger \in {<<>>, <<ManualRow>>}
    /\ now = 0
    /\ mp = IdleMapper
    /\ scores = DefaultScores
    /\ sg = IdleSuggest
    /\ wh = IdleWebhook
    /\ sy = IdleSync
    /\ im = IdleImport

NextImport ==
    \E a \in DOMAIN g_mapping_list.entries, batch \in Windows :
        \E failing \in SUBSET (1..Len(batch)) : Deliver(a, batch, failing)

SpecImport == InitImport /\ [][NextImport]_vars

\* Both write paths of the importer over the same store, no reconcile call failing.
NextPaths ==
    \E a \in DOMAIN g_mapping_list.entries, batch \in Windows :
        \/ Deliver(a, batch, {})
        \/ \E target \in YnabTargets : PostYnab(a, batch, target)

SpecPaths == InitImport /\ [][NextPaths]_vars

\* Balance reconciliation over a store in which a2 is mapped to the tracking account t3.
TrackingStore == MapperFile([a \in {"a1", "a2"} |-> IF a = "a1" THEN 1 ELSE 3])

InitTracking ==
    /\ world = FullWorld
    /\ cb = IdleCombine
    /\ sav = IdleSave
    /\ pr = IdleBoot
    /\ ft = IdleFetch
    /\ yn = <<>>
    /\ \E balance \in SourceBalances : tk = [IdleTracking EXCEPT !.source_balance = balance]
    /\ files = [NoFiles EXCEPT ![FileToBudget] = TrackingStore]
    /\ g_mapping_list = importer_load_existing_mapping(TrackingStore).mapping
    /\ g_accounts = importer_load_existing_mapping(TrackingStore).accounts
    /\ \E balance \in SourceBalances :
          ledger = IF balance = 0 THEN <<>> ELSE <<OpeningRow(balance)>>
    /\ now = 0
    /\ mp = IdleMapper
    /\ scores = DefaultScores
    /\ sg = IdleSuggest
    /\ wh = IdleWebhook
    /\ sy = IdleSync
    /\ im = IdleImport

NextTracking ==
    \/ \E a \in DOMAIN g_mapping_list.entries, up \in BOOLEAN : TrackingRun(a, up)
    \/ \E balance \in SourceBalances : BalanceDrift(balance)
    \/ \E amount \in SourceBalances \ {0} : LedgerActivity(amount)

SpecTracking == InitTracking /\ [][NextTracking]_vars

\* The account types an entry of the store may carry: the two the mapper writes, one it
\* does not know, and none (an entry written by akahu_budget_mapping.py).
DispatchTypes == {"On Budget", "Tracking", "Credit", "unset"}

\* The source balance an entry may carry under akahu_balance, in minor units, or none.
DispatchBalances == {NoneInt, Some(1000)}

\* An entry of the tracking store with the account type and the source balance drawn.
DispatchEntry(entry, account_type, balance) ==
    LET typed == IF account_type = "unset"
                 THEN [k \in DOMAIN entry \ {"account_type"} |-> entry[k]]
                 ELSE Put(entry, "account_type", account_type)
    IN IF balance = NoneInt THEN typed ELSE Put(typed, "akahu_balance", balance[1])

\* The body of main_loop for the entries of a store, in any order and any number of
\* times, over entries of every account type, with and without a source balance, the
\* tracking account being in the Actual budget or not.
InitDispatch ==
    /\ cb = IdleCombine
    /\ sav = IdleSave
    /\ pr = IdleBoot
    /\ ft = IdleFetch
    /\ yn = <<>>
    /\ tk = IdleTracking
    /\ files = [NoFiles EXCEPT ![FileToBudget] = TrackingStore]
    /\ world \in {FullWorld, [FullWorld EXCEPT !.actual = Without(FullWorld.actual, "t3")]}
    /\ \E types \in [AkahuIds -> DispatchTypes], balances \in [AkahuIds -> DispatchBalances] :
          LET loaded == importer_load_existing_mapping(TrackingStore).mapping
          IN g_mapping_list =
                [loaded EXCEPT !.entries =
                    [a \in DOMAIN loaded.entries |->
                        DispatchEntry(loaded.entries[a], types[a], balances[a])]]
    /\ g_accounts = importer_load_existing_mapping(TrackingStore).accounts
    /\ ledger = <<>>
    /\ now = 0
    /\ mp = IdleMapper
    /\ scores = DefaultScores
    /\ sg = IdleSuggest
    /\ wh = IdleWebhook
    /\ sy = IdleSync
    /\ im = IdleImport

NextDispatch ==
    \/ \E a \in DOMAIN g_mapping_list.entries, up \in BOOLEAN : TrackingRun(a, up)
    \/ \E a \in DOMAIN g_mapping_list.entries, fail_at \in 0..1 : RunStart(a, fail_at, 0)
    \/ FetchBegin
    \/ FetchPage
    \/ RunImport
    \/ \E a \in DOMAIN g_mapping_list.entries : UnknownType(a)

SpecDispatch == InitDispatch /\ [][NextDispatch]_vars

\* The scripts started on a store file that may be missing, whole, empty or half-written:
\* one run of a mapper and one start of the sync process, which serves one GET /sync.
InitLoad ==
    /\ world = FullWorld
    /\ cb = IdleCombine
    /\ sav = IdleSave
    /\ \E f \in StartFiles \cup {Truncated, PartlyWritten} :
          /\ files = [NoFiles EXCEPT ![FileToBudget] = f]
          /\ pr = [IdleBoot EXCEPT !.first = f]
    /\ ft = IdleFetch
    /\ yn = <<>>
    /\ tk = IdleTracking
    /\ now = MaxClock - 1
    /\ mp = IdleMapper
    /\ scores = DefaultScores
    /\ sg = IdleSuggest
    /\ g_mapping_list = NoMapping
    /\ g_accounts = NoAccounts
    /\ ledger = <<>>
    /\ wh = IdleWebhook
    /\ sy = [IdleSync EXCEPT !.n = MaxRequests - 1]
    /\ im = IdleImport

NextLoad ==
    \/ \E confirmation \in BOOLEAN : BudgetMapperStart(confirmation)
    \/ \E user_input \in Strings : BudgetMatchStep(user_input)
    \/ ActualMapperStart
    \/ \E user_choice \in Strings : ActualMatchStep(user_choice)
    \/ ImporterStart
    \/ pr.importer = "up" /\ \E up \in BOOLEAN : SyncStart(up)
    \/ SyncMainLoop

SpecLoad == InitLoad /\ [][NextLoad]_vars

\* A fetch against a drawn provider, from a drawn checkpoint, with at most one request
\* that fails.
InitFetch ==
    /\ world = FullWorld
    /\ cb = IdleCombine
    /\ sav = IdleSave
    /\ pr = IdleBoot
    /\ \E impl \in FetchImpls, provider \in Providers, checkpoint \in {NoneInt} \cup {Some(d) : d \in 0..MaxClock} :
        \E fail_at \in 0..Len(provider) :
          ft = [IdleFetch EXCEPT !.pc = "called", !.impl = impl, !.provider = provider,
                                 !.fail_at = fail_at, !.last_reconciled_at = checkpoint]
    /\ yn = <<>>
    /\ tk = IdleTracking
    /\ files = NoFiles
    /\ now = 0
    /\ mp = IdleMapper
    /\ scores = DefaultScores
    /\ sg = IdleSuggest
    /\ g_mapping_list = NoMapping
    /\ g_accounts = NoAccounts
    /\ ledger = <<>>
    /\ wh = IdleWebhook
    /\ sy = IdleSync
    /\ im = IdleImport

NextFetch == FetchBegin \/ FetchPage

SpecFetch == InitFetch /\ [][NextFetch]_vars

\* Runs of the On Budget branch over the two-entry store.
NextRuns ==
    \/ \E a \in DOMAIN g_mapping_list.entries, fail_at \in 0..MaxPages, silent_at \in 0..MaxPages :
          RunStart(a, fail_at, silent_at)
    \/ FetchBegin
    \/ FetchPage
    \/ RunImport

SpecRuns == InitImport /\ [][NextRuns]_vars

\* A save of a store file, which the process may not survive.
InitSave ==
    /\ world = FullWorld
    /\ cb = IdleCombine
    /\ \E job \in SaveJobs :
          /\ sav = [pc |-> "start", who |-> job.who, file |-> job.file,
                    prev |-> job.prev, doc |-> job.doc]
          /\ files = [NoFiles EXCEPT ![job.file] = job.prev]
    /\ pr = IdleBoot
    /\ ft = IdleFetch
    /\ yn = <<>>
    /\ tk = IdleTracking
    /\ now = 0
    /\ mp = IdleMapper
    /\ scores = DefaultScores
    /\ sg = IdleSuggest
    /\ g_mapping_list = NoMapping
    /\ g_accounts = NoAccounts
    /\ ledger = <<>>
    /\ wh = IdleWebhook
    /\ sy = IdleSync
    /\ im = IdleImport

NextSave == SaveOpen \/ SaveDump \/ SaveClose \/ Crash

SpecSave == InitSave /\ [][NextSave]_vars

----------------------------------------------------------------------------
(* Properties                                                              *)

TargetKeys == {"actual_account_id", "ynab_account_id"}

\* No two entries of mapping m hold the same target id under the same backend key.
UniqueTargets(m) ==
    \A a, b \in DOMAIN m : \A key \in TargetKeys :
        (a # b /\ Get(m[a], key) # None) => Get(m[a], key) # Get(m[b], key)

StoredMappings ==
    {mp.mapping} \cup {files[f].mapping : f \in {g \in FileNames : "mapping" \in DOMAIN files[g]}}

\* C1: after any sequence of mapper runs, with any typed answers, a (backend, target id)
\* pair appears in at most one MappingEntry -- in the mapping a run is building and in
\* every file a run has saved.
C1_UniqueTargetPerBackend == \A m \in StoredMappings : UniqueTargets(m)

\* A saved file in which both Akahu accounts are mapped for one backend, written by a
\* second run over a store the first run left.
C1_Witness ==
    /\ now = MaxClock
    /\ files[FileToBudget].exists
    /\ files[FileBudget].exists
    /\ DOMAIN files[FileBudget].mapping = AkahuIds
    /\ \A a \in AkahuIds : Get(files[FileBudget].mapping[a], "ynab_account_id") # None

HasImportedId(rows, account, id) ==
    \E r \in 1..Len(rows) : rows[r].account = account /\ rows[r].imported_id = id

StoreAndLedgers == <<files, g_mapping_list, g_accounts, ledger>>

\* C3: a request that was not signed by Akahu over its body changes neither the Mapping
\* Store nor a ledger, never passes SIGNATURE_VERIFIED and never comes to the call of
\* load_transactions_into_actual; that call is only reached from SIGNATURE_VERIFIED.
C3_RejectedRequestTouchesNothing ==
    [][ /\ (wh' # wh /\ ~GenuineRequest(wh'.req)) =>
              /\ UNCHANGED StoreAndLedgers
              /\ \A k \in 1..Len(wh'.path) : wh'.path[k] # "SIGNATURE_VERIFIED"
              /\ ~wh'.call_site
              /\ ~wh'.importer_invoked
        /\ (wh'.call_site /\ ~wh.call_site) =>
              /\ wh.path # <<>>
              /\ wh.path[Len(wh.path)] = "SIGNATURE_VERIFIED" ]_vars

\* A recognized event signed with another key has been answered.
C3_Witness ==
    /\ wh.pc = "done"
    /\ wh.req.signature.kind = "b64"
    /\ "signer" \in DOMAIN wh.req.signature.raw
    /\ wh.req.signature.raw.signer = AttackerKey
    /\ wh.req.signature.raw.over = wh.req.data
    /\ IsRecognizedEvent(wh.req.data)
    /\ wh.response.status = 400

Accepted == \E k \in 1..Len(wh.path) : wh.path[k] = "SIGNATURE_VERIFIED"

\* C4: a request carrying a signature made with key k over body b is accepted exactly
\* when k is Akahu's key and b is the body the request carries.
C4_AcceptsExactlyGenuine ==
    (/\ wh.n > 0
     /\ wh.req.signature.kind = "b64"
     /\ "signer" \in DOMAIN wh.req.signature.raw)
    => (Accepted <=> (/\ wh.req.signature.raw.signer = AkahuKey
                      /\ wh.req.signature.raw.over = wh.req.data))

\* Akahu's signature over one body sent with another body, and rejected.
C4_Witness ==
    /\ wh.pc = "done"
    /\ wh.req.signature.kind = "b64"
    /\ "signer" \in DOMAIN wh.req.signature.raw
    /\ wh.req.signature.raw.signer = AkahuKey
    /\ wh.req.signature.raw.over # wh.req.data
    /\ wh.req.signature.raw.over # EmptyDict
    /\ ~Accepted
    /\ wh.response = Response(400, "invalid signature")

\* C5: every request whose verification fails -- a signature that does not match, a
\* header that is no base64, a missing header -- ends REJECTED and is answered 400
\* {"status": "invalid signature"}.
C5_EveryFailureRejected400 ==
    (wh.pc = "done" /\ ~GenuineRequest(wh.req))
    => /\ wh.response = Response(400, "invalid signature")
       /\ wh.path = <<"AWAITING_REQUEST", "REJECTED">>

\* A request without the signature header has been answered 500.
C5_Witness ==
    /\ wh.pc = "done"
    /\ wh.req.signature.kind = "missing"
    /\ wh.response = InternalServerError("TypeError")

\* C6: a verified request with a recognized event that has come to the call of the
\* reconciliation primitive ends PROCESSED: the primitive was invoked and the answer is
\* 200 {"status": "success"}.
C6_VerifiedRecognizedProcessed ==
    (wh.pc = "done" /\ wh.call_site)
    => /\ wh.importer_invoked
       /\ wh.response = Response(200, "success")
       /\ wh.path = <<"AWAITING_REQUEST", "SIGNATURE_VERIFIED", "PROCESSED">>

\* A genuine TRANSACTION_CREATED request has been answered 500.
C6_Witness ==
    /\ wh.pc = "done"
    /\ GenuineRequest(wh.req)
    /\ Get(wh.req.data, "type") = "TRANSACTION_CREATED"
    /\ wh.call_site
    /\ wh.response = InternalServerError("NameError")

\* C7: a request signed by Akahu whose body has another type, or no type, is answered
\* 200 {"status": "ignored"}, never comes to PROCESSED or to the call of the
\* reconciliation primitive, and changes neither the Mapping Store nor a ledger.
C7_UnrecognizedIgnored ==
    [][ (/\ wh' # wh
         /\ GenuineRequest(wh'.req)
         /\ Get(wh'.req.data, "type") # "TRANSACTION_CREATED") =>
            /\ wh'.response = Response(200, "ignored")
            /\ wh'.pc = "done"
            /\ \A k \in 1..Len(wh'.path) : wh'.path[k] # "PROCESSED"
            /\ ~wh'.call_site
            /\ ~wh'.importer_invoked
            /\ UNCHANGED StoreAndLedgers ]_vars

\* A genuine TRANSACTION_DELETED event has been answered.
C7_Witness ==
    /\ wh.pc = "done"
    /\ GenuineRequest(wh.req)
    /\ Get(wh.req.data, "type") = "TRANSACTION_DELETED"
    /\ wh.response = Response(200, "ignored")

\* C8: the webhook handler's section on the mapping (from entering the Actual session to
\* its response) and the full sync's section (main_loop up to save_updated_mapping) are
\* never in progress together.
C8_MutualExclusion == ~(wh.pc = "in_actual" /\ sy.pc = "main_loop")

\* Both handlers are inside their sections over a store with entries.
C8_Witness ==
    /\ wh.pc = "in_actual"
    /\ sy.pc = "main_loop"
    /\ sy.entries # {}

\* C9: a full-sync run that got its Actual session processes every mapping entry and
\* saves the mapping, whatever fails for one entry.
C9_RunCompletes ==
    (sy.pc = "done" /\ sy.entries # {} /\ sy.response # InternalServerError("ActualError"))
    => /\ sy.processed = sy.entries
       /\ sy.saved

\* A run over a store of two entries has ended 500 with nothing processed or saved.
C9_Witness ==
    /\ sy.pc = "done"
    /\ Cardinality(sy.entries) = 2
    /\ sy.processed = {}
    /\ ~sy.saved
    /\ sy.response = InternalServerError("TypeError")

\* v is None or the displayed index of a candidate that no entry holds under the key.
SuggestsUnmapped(v) ==
    \/ v = NoneInt
    \/ /\ v[1] \in 1..Len(sg.target_accounts)
       /\ sg.target_accounts[v[1]].seq = v[1]
       /\ \A a \in DOMAIN sg.mapping :
             Get(sg.mapping[a], TargetKey(sg.account_type)) # sg.target_accounts[v[1]].id

\* C10: for every source account, candidate list, mapping, score table and advisor
\* answer, get_fuzzy_match_suggestion and get_openai_match_suggestion return None or the
\* displayed index of a candidate that is not the target of any entry for that backend.
C10_SuggestionNeverMapped ==
    sg.phase = "out" => SuggestsUnmapped(sg.fuzzy) /\ SuggestsUnmapped(sg.openai)

\* Some candidate is already mapped, and both functions suggest, each another candidate.
C10_Witness ==
    /\ sg.phase = "out"
    /\ \E k \in 1..Len(sg.target_accounts), a \in DOMAIN sg.mapping :
          Get(sg.mapping[a], TargetKey(sg.account_type)) = sg.target_accounts[k].id
    /\ sg.fuzzy # NoneInt
    /\ sg.openai # NoneInt
    /\ sg.fuzzy # sg.openai

\* The advisor's answer names no candidate that may be taken: it is no integer, no
\* displayed index, or the index of a candidate some entry already holds.
AdvisorAnswerInvalid ==
    LET p == ParseInt(Strip(sg.advisor.content))
    IN \/ ~p.ok
       \/ p.val \notin 1..Len(sg.target_accounts)
       \/ \E a \in DOMAIN sg.mapping :
             Get(sg.mapping[a], TargetKey(sg.account_type)) = sg.target_accounts[p.val].id

\* C11: whenever the advisor call raises or answers with something that is no integer, no
\* existing index or the index of an already-mapped account, get_openai_match_suggestion
\* returns what get_fuzzy_match_suggestion returns for the same arguments.
C11_AdvisoryDegradesToHeuristic ==
    (sg.phase = "out" /\ (sg.advisor.raises \/ AdvisorAnswerInvalid)) => sg.openai = sg.fuzzy

\* The advisor named an already-mapped candidate and the heuristic's suggestion, another
\* candidate, was returned.
C11_Witness ==
    /\ sg.phase = "out"
    /\ ~sg.advisor.raises
    /\ ParseInt(Strip(sg.advisor.content)).ok
    /\ ParseInt(Strip(sg.advisor.content)).val \in 1..Len(sg.target_accounts)
    /\ AdvisorAnswerInvalid
    /\ sg.openai # NoneInt
    /\ sg.openai = sg.fuzzy
    /\ sg.openai[1] # ParseInt(Strip(sg.advisor.content)).val

RejectedChoices == {"not_integer", "no_such_index", "already_mapped"}

\* C12: a typed choice that is no integer, no displayed index, or the index of a target
\* some entry already holds for that backend leaves the whole mapping as it was.
C12_InvalidChoiceChangesNothing ==
    mp.last.verdict \in RejectedChoices => (mp.last.same /\ mp.last.after = mp.last.before)

\* In the Actual pass of akahu_budget_mapping an Akahu account without an entry was
\* offered, and the index of a candidate held by another entry was typed.
C12_Witness ==
    /\ mp.last.tool = "budget"
    /\ mp.last.key = "actual_account_id"
    /\ mp.last.verdict = "already_mapped"
    /\ mp.last.before = EmptyDict
    /\ mp.last.same

\* C13: in akahu_budget_mapping, confirming the index of a displayed, unmapped candidate
\* for an Akahu account not yet mapped for that backend makes the account's entry hold
\* the id and the name of the candidate displayed at that index.
C13_ConfirmedIndexIsMapped ==
    (/\ mp.last.tool = "budget"
     /\ mp.last.verdict = "valid"
     /\ Get(mp.last.before, mp.last.key) = None)
    => /\ mp.last.shown.seq = mp.last.index
       /\ Get(mp.last.after, mp.last.key) = mp.last.shown.id
       /\ Get(mp.last.after, IF mp.last.key = "actual_account_id"
                             THEN "actual_account_name" ELSE "ynab_account_name")
             = mp.last.shown.name
       /\ mp.last.after.akahu_id = mp.last.akahu_id

\* Index 2 was confirmed for a1 in the Actual pass, and a1's entry holds the second
\* displayed account.
C13_Witness ==
    /\ mp.last.tool = "budget"
    /\ mp.last.verdict = "valid"
    /\ mp.last.akahu_id = "a1"
    /\ mp.last.key = "actual_account_id"
    /\ mp.last.index = 2
    /\ mp.last.after.actual_account_id = "t2"
    /\ mp.last.after.actual_account_name = "Saver"

\* C14: a pass of the prompt loop never alters an existing mapping: whatever target the
\* account's entry held for a backend before the pass, it holds after it.
C14_ExistingMappingKept ==
    \A key \in TargetKeys :
        Get(mp.last.before, key) # None => Get(mp.last.after, key) = Get(mp.last.before, key)

\* In the YNAB pass an account mapped to an Actual account was given a YNAB account, and
\* its entry no longer names the Actual account.
C14_Witness ==
    /\ mp.last.tool = "budget"
    /\ mp.last.key = "ynab_account_id"
    /\ mp.last.verdict = "valid"
    /\ Get(mp.last.before, "actual_account_id") = "t1"
    /\ Get(mp.last.after, "ynab_account_id") = "y1"
    /\ Get(mp.last.after, "actual_account_id") = None

\* C15: combine_accounts gives each account whose id is in both lists the
\* date_first_loaded it had in the existing list, and gives the current date to the
\* accounts whose id is not in the existing list, and only to them.
C15_FirstSeenPreserved ==
    cb.phase = "out" =>
        \A i \in 1..Len(cb.combined) :
            LET acc == cb.combined[i]
                old == {k \in 1..Len(cb.existing) : cb.existing[k].id = acc.id}
            IN /\ old # {} => \A k \in old : acc.date_first_loaded = cb.existing[k].date_first_loaded
               /\ old = {} => acc.date_first_loaded = now
               /\ acc.date_first_loaded = now => old = {}

\* A merge with one account known before and one seen for the first time.
C15_Witness ==
    /\ cb.phase = "out"
    /\ \E i, j \in 1..Len(cb.combined) :
          /\ cb.combined[i].id \in Ids(cb.existing)
          /\ cb.combined[i].date_first_loaded < now - 1
          /\ cb.combined[j].id \notin Ids(cb.existing)
          /\ cb.combined[j].date_first_loaded = now

\* C16: combine_accounts reports as removed exactly the ids that are in the existing list
\* and not in the latest, and the merged list holds exactly the accounts of the latest
\* list, each once and in its order.
C16_RemovedIdsExact ==
    cb.phase = "out" =>
        /\ cb.deleted = {cb.existing[k].id : k \in 1..Len(cb.existing)}
                            \ {cb.latest[k].id : k \in 1..Len(cb.latest)}
        /\ Len(cb.combined) = Len(cb.latest)
        /\ \A i \in 1..Len(cb.latest) :
              /\ cb.combined[i].id = cb.latest[i].id
              /\ cb.combined[i].name = cb.latest[i].name

\* A merge in which an account vanished, one stayed and one is new.
C16_Witness ==
    /\ cb.phase = "out"
    /\ cb.deleted = {"d1"}
    /\ Len(cb.existing) = 2
    /\ Len(cb.combined) = 2
    /\ cb.combined[1].id = "d3"
    /\ cb.combined[2].id = "d2"
    /\ cb.existing[2].id = "d2"

\* The fields an entry holds for a backend, and the ids of the backend's merged directory.
BackendFields(account_type) ==
    {account_type \o "_account_id", account_type \o "_account_name",
     account_type \o "_budget_id", account_type \o "_budget_name"}

MergedIds(refresh, account_type) ==
    IF account_type = "actual" THEN refresh.actual_ids ELSE refresh.ynab_ids

\* The backends whose directory the tool of the run merges.
BackendsOf(tool) == IF tool = "budget" THEN {"actual", "ynab"} ELSE {"actual"}

\* Entry a of the mapping given to the merge holds, for the backend, a target that is
\* not in the backend's merged directory, while a's source account is still there.
TargetVanished(refresh, a, account_type) ==
    /\ a \in DOMAIN refresh.before
    /\ a \in refresh.akahu_ids
    /\ Get(refresh.before[a], TargetKey(account_type)) # None
    /\ Get(refresh.before[a], TargetKey(account_type)) \notin MergedIds(refresh, account_type)

\* C17: when the target an entry holds for a backend is gone from the backend's latest
\* directory, merge_and_update_mapping keeps the entry, clears the backend's target id
\* and name in it, and leaves every field of the other backends as it was.
C17_VanishedTargetCleared ==
    \A a \in DOMAIN mp.refresh.before : \A account_type \in BackendsOf(mp.refresh.tool) :
        TargetVanished(mp.refresh, a, account_type) =>
            /\ a \in DOMAIN mp.refresh.after
            /\ Get(mp.refresh.after[a], TargetKey(account_type)) = None
            /\ Get(mp.refresh.after[a], TargetNameKey(account_type)) = None
            /\ \A k \in DOMAIN mp.refresh.before[a] \ BackendFields(account_type) :
                  Get(mp.refresh.after[a], k) = mp.refresh.before[a][k]

\* A run of the newer mapper whose merge was given a1 -> t1 with t1 gone from Actual.
C17_Witness ==
    /\ mp.refresh.tool = "budget"
    /\ TargetVanished(mp.refresh, "a1", "actual")
    /\ mp.refresh.before["a1"].actual_account_id = "t1"

\* C18: merge_and_update_mapping deletes the entry of every source account that is gone
\* from the latest source directory, and keeps the entry of every source account that is
\* still there.
C18_VanishedSourceDeleted ==
    \A a \in DOMAIN mp.refresh.before :
        /\ a \notin mp.refresh.akahu_ids => a \notin DOMAIN mp.refresh.after
        /\ a \in mp.refresh.akahu_ids => a \in DOMAIN mp.refresh.after

\* A run of the newer mapper whose merge was given entries for a1 and a2 with a2 gone
\* from Akahu.
C18_Witness ==
    /\ mp.refresh.tool = "budget"
    /\ DOMAIN mp.refresh.before = {"a1", "a2"}
    /\ mp.refresh.akahu_ids = {"a1"}

\* A saved file holds no target id that is missing from the directory saved with it (the
\* merged directory of the run; it is built from the open accounts only).
NoDanglingTarget(f) ==
    \A a \in DOMAIN f.mapping :
        /\ Get(f.mapping[a], "actual_account_id") # None
              => Get(f.mapping[a], "actual_account_id") \in Ids(f.actual_accounts)
        /\ Get(f.mapping[a], "ynab_account_id") # None
              => Get(f.mapping[a], "ynab_account_id") \in Ids(f.ynab_accounts)

\* C19: after every completed run of a mapper, each target id of each saved entry is the
\* id of an account of that backend's merged directory, which holds open accounts only.
C19_SavedTargetsExist ==
    \A f \in FileNames : files[f].exists => NoDanglingTarget(files[f])

\* The newer mapper has saved after a run that started with a1 -> t1 stored and t1 closed.
C19_Witness ==
    /\ files[FileBudget].exists
    /\ files[FileToBudget].exists
    /\ "a1" \in DOMAIN files[FileToBudget].mapping
    /\ files[FileToBudget].mapping["a1"].actual_account_id = "t1"
    /\ \E i \in 1..Len(world.actual) : world.actual[i].id = "t1" /\ world.actual[i].closed
    /\ "t1" \notin Ids(files[FileBudget].actual_accounts)
    /\ "a1" \in DOMAIN files[FileBudget].mapping
    /\ Get(files[FileBudget].mapping["a1"], "actual_account_id") = "t1"

\* The file the run that has just ended wrote, and the file every load reads.
SavedFile == IF mp.last.tool = "budget" THEN files[FileBudget] ELSE files[FileToBudget]

RunJustEnded == mp.pc = "idle" /\ mp.last.tool # "none"

\* C20: when a mapper run has saved, the next run's load_existing_mapping and the sync
\* process's load_existing_mapping both return the source accounts, the target accounts
\* of each backend and the entries that were saved.
C20_SaveLoadRoundTrip ==
    RunJustEnded =>
        LET saved == SavedFile
            next_run == IF mp.last.tool = "budget"
                        THEN budget_load_existing_mapping(files[FileToBudget])
                        ELSE actual_load_existing_mapping(files[FileToBudget])
            sync == importer_load_existing_mapping(files[FileToBudget])
        IN /\ next_run.mapping = saved.mapping
           /\ next_run.akahu_accounts = saved.akahu_accounts
           /\ next_run.actual_accounts = saved.actual_accounts
           /\ mp.last.tool = "budget" => next_run.ynab_accounts = saved.ynab_accounts
           /\ ~sync.raised
           /\ sync.mapping.entries = saved.mapping
           /\ sync.accounts.akahu = saved.akahu_accounts
           /\ sync.accounts.actual = saved.actual_accounts
           /\ sync.accounts.ynab = saved.ynab_accounts

\* The first run of the newer mapper has ended and saved a1 -> y1.
C20_Witness ==
    /\ RunJustEnded
    /\ mp.last.tool = "budget"
    /\ ~files[FileToBudget].exists
    /\ files[FileBudget].exists
    /\ "a1" \in DOMAIN files[FileBudget].mapping
    /\ Get(files[FileBudget].mapping["a1"], "ynab_account_id") = "y1"

\* C21: when the process stops during a save, the store file holds the complete
\* previous state or the complete new state.
C21_SaveAtomic ==
    sav.pc = "stopped" => files[sav.file] \in {sav.prev, sav.doc}

\* The process stopped while json.dump was writing over an existing store.
C21_Witness ==
    /\ sav.pc = "stopped"
    /\ sav.prev.exists
    /\ files[sav.file] = PartlyWritten

RECURSIVE ItemsOfPages(_, _)
ItemsOfPages(provider, n) ==
    IF n = 0 THEN <<>> ELSE ItemsOfPages(provider, n - 1) \o provider[n].items

\* No request of the fetch has failed.
NoRequestFailed == ft.fail_at = 0 \/ ft.fail_at > Len(ft.requests)

\* Each request after the first carries the next cursor of the page before it.
CursorsChained ==
    \A i \in 1..Len(ft.requests) :
        ft.requests[i].cursor = IF i = 1 THEN NoneInt ELSE ft.provider[i - 1].next

\* The first page that holds no items, or the last page if every page holds some.
FirstEmptyOrLastPage(provider) ==
    Min({i \in 1..Len(provider) : Len(provider[i].items) = 0} \cup {Len(provider)})

C30_StartBoundLooksBack ==
    ft.impl \in {"akahu_to_budget", "akahu_to_actual"} =>
        \A i \in 1..Len(ft.requests) :
            ft.requests[i].start =
                Some((IF ft.last_reconciled_at = NoneInt THEN StartOfTime
                      ELSE ft.last_reconciled_at[1]) - LookbackDays)

\* get_all_akahu of akahu_to_budget.py, given a checkpoint, has made two requests, both
\* with the same start bound.
C30_Witness ==
    /\ ft.impl = "akahu_to_budget"
    /\ ft.last_reconciled_at # NoneInt
    /\ Len(ft.requests) > 1
    /\ ft.requests[1].start = ft.last_reconciled_at
    /\ \A i \in 1..Len(ft.requests) : ft.requests[i].start = ft.requests[1].start

\* The source transaction a ledger row was imported from, by imported_id.
SourceOf(id) == {t \in {SourceHistory[k] : k \in 1..Len(SourceHistory)} : t._id = id}

\* C24: every transaction the importer writes to a target ledger has the negated amount
\* of its source transaction and an imported id equal to the source transaction's id:
\* the rows it creates in Actual, and the records it posts to YNAB.
C24_NegatedAmountAndSourceId ==
    /\ \A r \in 1..Len(ledger) :
          ledger[r].imported_id # None =>
              \E t \in SourceOf(ledger[r].imported_id) : ledger[r].amount = 0 - t.amount
    /\ \A p \in 1..Len(yn) : \A k \in 1..Len(yn[p].request.transactions) :
          /\ yn[p].request.transactions[k].amount = 0 - yn[p].source[k].amount
          /\ Get(yn[p].request.transactions[k], "import_id") = yn[p].source[k]._id

\* The same two transactions have gone down both paths: Actual holds their rows with
\* the amount negated, and the request to YNAB carries the amount as fetched and no
\* import_id.
C24_Witness ==
    /\ Len(yn) = 1
    /\ Len(yn[1].source) = 2
    /\ \A k \in 1..Len(yn[1].source) :
          /\ \E r \in 1..Len(ledger) :
                /\ ledger[r].imported_id = yn[1].source[k]._id
                /\ ledger[r].amount = 0 - yn[1].source[k].amount
          /\ yn[1].request.transactions[k].amount = yn[1].source[k].amount
          /\ Get(yn[1].request.transactions[k], "import_id") = None

\* The rows the last run of the balance reconciliation added to the ledger.
CreatedByRun == SubSeq(ledger, Len(tk.before) + 1, Len(ledger))

\* The Actual account of the entry the last run was for.
TrackedAccount == g_mapping_list.entries[tk.akahu_id].actual_account_id

\* Source balance minus target balance, in minor units, as the last run found them.
Divergence ==
    round_times_100(tk.source_balance) - SumAmounts(tk.before, TrackedAccount, Len(tk.before))

\* C25: a run of the balance reconciliation for a tracking entry creates no transaction
\* when the rounded source balance equals the target balance, and exactly one, with
\* payee "Balance Adjustment" and the difference as its amount, when they differ.
C25_AdjustsExactlyOnDivergence ==
    tk.last = "run" =>
        IF Divergence = 0 THEN CreatedByRun = <<>>
        ELSE /\ Len(CreatedByRun) = 1
             /\ CreatedByRun[1].account = TrackedAccount
             /\ CreatedByRun[1].payee = "Balance Adjustment"
             /\ CreatedByRun[1].amount = Divergence

\* A run for a tracking entry whose balances differ has ended in the except clause and
\* has left the ledger as it was.
C25_Witness ==
    /\ tk.last = "run"
    /\ Divergence # 0
    /\ tk.raised = "KeyError"
    /\ ledger = tk.before

\* The adjustment rows of an account among the rows after position `from`.
AdjustmentsSince(from, account) ==
    {r \in (from + 1)..Len(ledger) :
        ledger[r].account = account /\ ledger[r].payee = "Balance Adjustment"}

AbortedBeforeSave ==
    {InternalServerError("ActualError"), InternalServerError("TypeError")}

\* C27: GET /sync answers 200 "full sync complete" only when the run has processed every
\* entry and saved the store, the file then being the saved mapping; while the run is
\* under way the file is as the run found it, and so it stays when the run ends before
\* the save.
C27_OkOnlyAfterSave ==
    /\ sy.pc = "main_loop" => files[FileToBudget] = sy.file_before
    /\ sy.pc = "done" =>
          /\ sy.response = Response(200, "full sync complete") =>
                /\ sy.processed = sy.entries
                /\ sy.saved
                /\ files[FileToBudget] = save_updated_mapping(g_mapping_list, g_accounts).file
          /\ sy.response \in AbortedBeforeSave =>
                /\ ~sy.saved
                /\ files[FileToBudget] = sy.file_before

\* The second GET /sync of the process has been answered 200 and the store file holds
\* the saved mapping.
C27_Witness ==
    /\ sy.pc = "done"
    /\ sy.n = MaxRequests
    /\ sy.response = Response(200, "full sync complete")
    /\ sy.saved
    /\ files[FileToBudget].exists
    /\ files[FileToBudget].shape = "list"

\* A webhook run has come to its call of load_transactions_into_actual and a full-sync
\* run over a store with entries has had its Actual session: both triggers have had a
\* transaction to deliver.
BothTriggersRan ==
    /\ wh.pc = "done"
    /\ wh.call_site
    /\ sy.pc = "done"
    /\ sy.entries # {}
    /\ sy.response # InternalServerError("ActualError")

\* C28: the webhook path and the scheduled path deliver through the same primitive: when
\* both have run, each has entered load_transactions_into_actual, the ledger holds the
\* row of the delivered transaction and the entry's checkpoint is set.
C28_TriggersEquivalent ==
    BothTriggersRan =>
        /\ wh.importer_invoked
        /\ sy.processed = sy.entries
        /\ \E r \in 1..Len(ledger) : ledger[r].imported_id = wh.req.data.item._id
        /\ \E a \in sy.entries : "actual_synced_datetime" \in DOMAIN g_mapping_list.entries[a]

\* Both triggers have run and both have ended 500, on different exceptions, with no
\* row written and no checkpoint set.
C28_Witness ==
    /\ BothTriggersRan
    /\ wh.response = InternalServerError("NameError")
    /\ sy.response = InternalServerError("TypeError")
    /\ ~wh.importer_invoked
    /\ sy.processed = {}
    /\ ledger = <<>>
    /\ \A a \in sy.entries : "actual_synced_datetime" \notin DOMAIN g_mapping_list.entries[a]

\* The entries of the store that import into the account of the last invocation.
EntriesOfLastImport ==
    {a \in DOMAIN g_mapping_list.entries :
        g_mapping_list.entries[a].actual_account_id = im.account}

\* C29: when an import for an entry has finished, whatever the batch held and whichever
\* reconcile calls failed, the entry's checkpoint is the current time.
C29_CheckpointAdvancedToNow ==
    im.n > 0 =>
        \A a \in EntriesOfLastImport :
            /\ "actual_synced_datetime" \in DOMAIN g_mapping_list.entries[a]
            /\ g_mapping_list.entries[a].actual_synced_datetime = now

\* An import whose fetch returned no transactions has finished and the entry has no
\* checkpoint.
C29_Witness ==
    /\ im.n > 0
    /\ im.batch = <<>>
    /\ EntriesOfLastImport # {}
    /\ \A a \in EntriesOfLastImport :
          "actual_synced_datetime" \notin DOMAIN g_mapping_list.entries[a]

\* The displayed indices of the candidates of the last suggestion call that no entry
\* holds under the backend's key.
UnmappedCandidates ==
    {idx \in 1..Len(sg.target_accounts) :
        ~IsAlreadyMapped(sg.target_accounts[idx].id, sg.mapping, TargetKey(sg.account_type))}

\* The similarity score of the candidate displayed at idx for the account of the call.
ScoreOf(idx) == scores[<<sg.akahu_account.name, sg.target_accounts[idx].name>>]

\* The unmapped candidates of maximal score.
BestUnmapped ==
    {idx \in UnmappedCandidates : \A j \in UnmappedCandidates : ScoreOf(j) <= ScoreOf(idx)}

\* C34: the heuristic returns the first best-scoring unmapped candidate when its score
\* is greater than the threshold, and None otherwise: when the best score is the
\* threshold or less, and when no candidate is unmapped.
C34_FuzzyAboveThresholdOnly ==
    sg.phase = "out" =>
        IF UnmappedCandidates # {} /\ (\E idx \in BestUnmapped : ScoreOf(idx) > FuzzyThreshold)
        THEN sg.fuzzy = Some(Min(BestUnmapped))
        ELSE sg.fuzzy = NoneInt

\* The best unmapped candidate scores exactly the threshold and is suggested.
C34_Witness ==
    /\ sg.phase = "out"
    /\ UnmappedCandidates # {}
    /\ \A idx \in BestUnmapped : ScoreOf(idx) = FuzzyThreshold
    /\ sg.fuzzy = Some(Min(BestUnmapped))

\* The transactions of the history that have no row in the Actual account of entry a.
NotImported(a) ==
    {k \in 1..Len(RunHistory) :
        ~HasImportedId(ledger, g_mapping_list.entries[a].actual_account_id, RunHistory[k]._id)}

\* The start bound the next fetch for entry a will send.
NextStart(a) ==
    start_bound("akahu_to_budget",
                IF "actual_synced_datetime" \in DOMAIN g_mapping_list.entries[a]
                THEN Some(g_mapping_list.entries[a].actual_synced_datetime)
                ELSE Some(StartOfTime))[1]

C32_NoCallWaitsForever == ft.pc # "blocked"

\* The fetch for the first entry of a run sits in a request that Akahu never answers:
\* the import has not been reached and the other entry has not been looked at.
C32_Witness ==
    /\ ft.pc = "blocked"
    /\ ft.silent_at = Len(ft.requests)
    /\ ledger = <<>>
    /\ \A a \in DOMAIN g_mapping_list.entries :
          "actual_synced_datetime" \notin DOMAIN g_mapping_list.entries[a]

ClosedActualIds == {world.actual[i].id : i \in {j \in 1..Len(world.actual) : world.actual[j].closed}}

\* C35: while a mapper run is past its refresh, a closed target account is not among the
\* candidates offered for matching, and it is in the merged directory of its backend.
C35_ClosedExcludedButRetained ==
    mp.refresh.tool # "none" =>
        \A id \in ClosedActualIds :
            /\ id \notin Ids(mp.actual_accounts)
            /\ id \in mp.refresh.actual_ids

\* The store the run loaded lists t1 in its Actual directory; t1 has been closed since,
\* and the merged directory of the run no longer holds it.
C35_Witness ==
    /\ mp.refresh.tool = "budget"
    /\ "t1" \in ClosedActualIds
    /\ files[FileToBudget].exists
    /\ "t1" \in Ids(files[FileToBudget].actual_accounts)
    /\ "t1" \notin Ids(mp.actual_accounts)
    /\ "t1" \notin mp.refresh.actual_ids

\* The fields a pass of the prompt loop writes when it commits a choice under `key`.
WrittenBy(key) ==
    {key, IF key = "actual_account_id" THEN "actual_account_name" ELSE "ynab_account_name",
     "akahu_id", "akahu_name", "matched_date"}

\* C36: a pass of the prompt loop that commits a choice for one backend leaves every
\* other field the account's entry held, the target id and name of the other backend
\* among them, in the entry with the value it had.
C36_OtherBackendUntouched ==
    (mp.last.tool = "budget" /\ mp.last.verdict = "valid" /\ ~mp.last.same) =>
        \A k \in DOMAIN mp.last.before \ WrittenBy(mp.last.key) :
            /\ k \in DOMAIN mp.last.after
            /\ mp.last.after[k] = mp.last.before[k]

\* The YNAB pass of a run gave a1 the account y1, the Actual pass of the same run has
\* given it t1, and the entry no longer names y1.
C36_Witness ==
    /\ mp.last.tool = "budget"
    /\ mp.last.akahu_id = "a1"
    /\ mp.last.key = "actual_account_id"
    /\ mp.last.verdict = "valid"
    /\ Get(mp.last.before, "ynab_account_id") = "y1"
    /\ Get(mp.last.before, "actual_account_id") = None
    /\ Get(mp.last.after, "actual_account_id") = "t1"
    /\ "ynab_account_id" \notin DOMAIN mp.last.after

\* The backend a target key belongs to.
BackendOfKey(key) == IF key = "actual_account_id" THEN "actual" ELSE "ynab"

\* The last pass of akahu_budget_mapping's prompt loop was for an account whose target
\* for the pass's backend was found gone by the merge of the same run.
PassForVanishedTarget ==
    /\ mp.last.tool = "budget"
    /\ mp.refresh.tool = "budget"
    /\ TargetVanished(mp.refresh, mp.last.akahu_id, BackendOfKey(mp.last.key))

\* C37: an account whose target for a backend was found gone by removal reconciliation
\* is offered again by the prompt loop of the run: when the operator answers its pass
\* with the index of a free candidate, the account's entry holds that candidate.
C37_ClearedTargetOfferedAgain ==
    (PassForVanishedTarget /\ mp.last.verdict = "valid") =>
        /\ Get(mp.last.after, mp.last.key) = mp.last.shown.id
        /\ ~mp.last.same

\* The newer mapper's Actual pass for a1, whose target t1 is gone from Actual, answered
\* with the index of the free candidate t2.
C37_Witness ==
    /\ mp.last.tool = "budget"
    /\ PassForVanishedTarget
    /\ mp.last.akahu_id = "a1"
    /\ mp.last.key = "actual_account_id"
    /\ mp.last.verdict = "valid"
    /\ mp.last.shown.id = "t2"
    /\ Get(mp.refresh.before["a1"], "actual_account_id") = "t1"

\* The fields of an entry that record a sync: load_transactions_into_actual sets
\* actual_synced_datetime; no other field is assigned by the sync process.
CheckpointFields == {"actual_synced_datetime", "ynab_synced_datetime"}

WithoutCheckpoints(entry) == [k \in DOMAIN entry \ CheckpointFields |-> entry[k]]

\* A store file with the checkpoint fields of its entries left out; a file that is
\* missing or cannot be decoded is taken as it is.
ApartFromCheckpoints(f) ==
    IF f.exists /\ JsonReadable(f)
    THEN [f EXCEPT !.mapping = [a \in DOMAIN f.mapping |-> WithoutCheckpoints(f.mapping[a])]]
    ELSE f

\* C38: when a full sync has ended, the store file is what it was when the run began,
\* apart from the checkpoint fields of its entries: the same directories, the same
\* entries, the same target ids and names.
C38_SyncChangesOnlyCheckpoints ==
    sy.pc = "done" =>
        ApartFromCheckpoints(files[FileToBudget]) = ApartFromCheckpoints(sy.file_before)

\* A full sync that began without a store file has ended and a store file exists.
C38_Witness ==
    /\ sy.pc = "done"
    /\ sy.response = InternalServerError("AttributeError")
    /\ ~sy.file_before.exists
    /\ files[FileToBudget].exists

\* mapping_entry.get('account_type', 'On Budget') of the entry of Akahu account a.
AccountTypeOf(a) ==
    IF "account_type" \in DOMAIN g_mapping_list.entries[a]
    THEN g_mapping_list.entries[a].account_type ELSE "On Budget"

\* The entries of the store that name the Actual account.
EntriesNaming(account) ==
    {a \in DOMAIN g_mapping_list.entries : g_mapping_list.entries[a].actual_account_id = account}

IsTrackingRun == tk'.n = tk.n + 1

\* During the run of the step a balance was unavailable: the entry has no akahu_balance,
\* or the Actual session could not be used, or Actual holds no account of the entry's id.
BalanceUnavailable ==
    LET entry == g_mapping_list.entries[tk'.akahu_id]
    IN \/ "akahu_balance" \notin DOMAIN entry
       \/ ~tk'.up
       \/ entry.actual_account_id \notin Ids(world.actual)

\* C40: a run of handle_tracking_account_actual during which the source balance is
\* missing from the entry, or the lookup of the target balance fails or finds no
\* account, leaves the ledger as it was and returns to its caller.
C40_NoAdjustmentWithoutBalances ==
    [][ (IsTrackingRun /\ BalanceUnavailable) => (ledger' = ledger /\ tk'.returned) ]_vars

\* The last run was for the entry a2, which carries a source balance of 10.00, while
\* Actual holds no account t3: the run raised TypeError inside its try block, returned,
\* and the ledger is as the run found it.
C40_Witness ==
    /\ tk.last = "run"
    /\ tk.akahu_id = "a2"
    /\ tk.up
    /\ "akahu_balance" \in DOMAIN g_mapping_list.entries["a2"]
    /\ g_mapping_list.entries["a2"].akahu_balance = 1000
    /\ "t3" \notin Ids(world.actual)
    /\ tk.raised = "TypeError"
    /\ tk.returned
    /\ ledger = tk.before

====
